---- MODULE Spec2Model ----
(***************************************************************************)
(* FileFlow (src/FileFlow2.py): the Catalog (FileDatabase), the Scanner    *)
(* (FileScanner), the DuplicateFinder and the FileOrganizer, as state      *)
(* machines.                                                               *)
(*                                                                         *)
(* Representation.  A file name is a sequence of one-character strings, so *)
(* that os.path.splitext, str.lower, str.capitalize and the regular        *)
(* expressions of get_rename_suggestions are computed character by         *)
(* character.  A directory is a sequence of path segments (strings).  A    *)
(* path is the record [dir |-> directory, name |-> file name].             *)
(***************************************************************************)
EXTENDS Integers, Sequences, FiniteSets, TLC

VARIABLES
    db,     \* FileDatabase.data: files (file_order is the order of the dict's keys),
            \* file_count, extensions, by_category, total_size, history
    fs,     \* the filesystem: path -> directory entry
    df,     \* the DuplicateFinder's fields
    dfw,    \* the DuplicateFinder's worker threads
    org,    \* the FileOrganizer's fields
    orgw,   \* the FileOrganizer's worker threads
    sc,     \* the FileScanner's fields
    scw,    \* the FileScanner's worker threads
    cfg,    \* the ConfigManager's values
    obs     \* what the environment has observed (request results, snapshots)

vars == <<db, fs, df, dfw, org, orgw, sc, scw, cfg, obs>>

None == "None"

(***************************************************************************)
(* Characters and strings                                                  *)
(***************************************************************************)
Lowers == <<"a","b","c","d","e","f","g","h","i","j","k","l","m",
            "n","o","p","q","r","s","t","u","v","w","x","y","z">>
Uppers == <<"A","B","C","D","E","F","G","H","I","J","K","L","M",
            "N","O","P","Q","R","S","T","U","V","W","X","Y","Z">>
Digits == <<"0","1","2","3","4","5","6","7","8","9">>

IsIn(c, table) == \E i \in 1..Len(table) : table[i] = c
IndexIn(c, table) == CHOOSE i \in 1..Len(table) : table[i] = c

\* str.lower / str.upper on one character
LowerChar(c) == IF IsIn(c, Uppers) THEN Lowers[IndexIn(c, Uppers)] ELSE c
UpperChar(c) == IF IsIn(c, Lowers) THEN Uppers[IndexIn(c, Lowers)] ELSE c

\* str.lower
Lower(s) == [i \in 1..Len(s) |-> LowerChar(s[i])]

\* os.path.splitext on a file name: the extension starts at the last dot,
\* provided some character before that dot is not a dot.
DotPositions(s) == {i \in 1..Len(s) : s[i] = "."}
LastDot(s) == CHOOSE i \in DotPositions(s) : \A j \in DotPositions(s) : j <= i
HasExt(s) == DotPositions(s) # {} /\ \E i \in 1..(LastDot(s) - 1) : s[i] # "."
SplitBase(s) == IF HasExt(s) THEN SubSeq(s, 1, LastDot(s) - 1) ELSE s
SplitExt(s) == IF HasExt(s) THEN SubSeq(s, LastDot(s), Len(s)) ELSE <<>>

StartsWith(s, p) == Len(p) <= Len(s) /\ SubSeq(s, 1, Len(p)) = p
EndsWith(s, p) == Len(p) <= Len(s) /\ SubSeq(s, Len(s) - Len(p) + 1, Len(s)) = p

(***************************************************************************)
(* File categories                                                         *)
(***************************************************************************)
\* FILE_CATEGORIES, restricted to the extensions the model's files use
FILE_CATEGORIES ==
    [Images    |-> {<<".","j","p","g">>, <<".","p","n","g">>},
     Documents |-> {<<".","p","d","f">>, <<".","m","d">>, <<".","t","x","t">>},
     Code      |-> {<<".","c">>, <<".","p","y">>}]

\* FileDatabase._get_category_for_extension and FileScanner._get_file_category
CategoryForExtension(ext) ==
    IF \E cat \in DOMAIN FILE_CATEGORIES : Lower(ext) \in FILE_CATEGORIES[cat]
    THEN CHOOSE cat \in DOMAIN FILE_CATEGORIES : Lower(ext) \in FILE_CATEGORIES[cat]
    ELSE "Misc"

(***************************************************************************)
(* Functions as dictionaries                                               *)
(***************************************************************************)
Put(f, k, v) == [x \in DOMAIN f \cup {k} |-> IF x = k THEN v ELSE f[x]]
Del(f, k) == [x \in DOMAIN f \ {k} |-> f[x]]
EmptyMap == [x \in {} |-> None]

RECURSIVE SumOver(_, _)
SumOver(f, keys) ==
    IF keys = {} THEN 0
    ELSE LET k == CHOOSE x \in keys : TRUE
         IN f[k] + SumOver(f, keys \ {k})

(***************************************************************************)
(* The Catalog: FileDatabase                                               *)
(***************************************************************************)
\* FileDatabase.__init__ (no database file on disk yet)
EmptyDb ==
    [files       |-> EmptyMap,
     file_order  |-> <<>>,
     file_count  |-> 0,
     extensions  |-> EmptyMap,
     by_category |-> EmptyMap,
     total_size  |-> 0,
     patterns    |-> [naming |-> EmptyMap, organization |-> EmptyMap],
     history     |-> <<>>]

\* FileDatabase.add_file
add_file(d, path, metadata) ==
    LET ext == Lower(SplitExt(path.name))
        files1 == Put(d.files, path, metadata)
        exts1 == IF ext # <<>>
                 THEN Put(d.extensions, ext,
                          (IF ext \in DOMAIN d.extensions THEN d.extensions[ext] ELSE 0) + 1)
                 ELSE d.extensions
        category == CategoryForExtension(ext)
        old == IF category \in DOMAIN d.by_category
               THEN d.by_category[category]
               ELSE [count |-> 0, size |-> 0]
    IN [d EXCEPT !.files = files1,
                 !.file_order = IF path \in DOMAIN d.files THEN @ ELSE Append(@, path),
                 !.file_count = Cardinality(DOMAIN files1),
                 !.extensions = exts1,
                 !.by_category = Put(d.by_category, category,
                                     [count |-> old.count + 1,
                                      size |-> old.size + metadata.size]),
                 !.total_size = d.total_size + metadata.size]

\* remove_file that leaves a category entry whose count has dropped to 0
remove_file_keeps_empty_category(d, path) ==
    IF path \in DOMAIN d.files
    THEN LET metadata == d.files[path]
             category == CategoryForExtension(Lower(SplitExt(path.name)))
             files1 == Del(d.files, path)
         IN [d EXCEPT !.files = files1,
                      !.file_order = SelectSeq(@, LAMBDA p : p # path),
                      !.file_count = Cardinality(DOMAIN files1),
                      !.by_category =
                          IF category \in DOMAIN d.by_category
                          THEN [d.by_category EXCEPT ![category] =
                                   [count |-> @.count - 1, size |-> @.size - metadata.size]]
                          ELSE d.by_category,
                      !.total_size = d.total_size - metadata.size]
    ELSE d

\* FileDatabase.remove_file
remove_file(d, path) ==
    IF path \in DOMAIN d.files
    THEN LET metadata == d.files[path]
             ext == Lower(SplitExt(path.name))
             exts1 == IF ext # <<>> /\ ext \in DOMAIN d.extensions
                      THEN IF d.extensions[ext] - 1 <= 0
                           THEN Del(d.extensions, ext)
                           ELSE [d.extensions EXCEPT ![ext] = @ - 1]
                      ELSE d.extensions
             category == CategoryForExtension(ext)
             cats1 == IF category \in DOMAIN d.by_category
                      THEN IF d.by_category[category].count - 1 <= 0
                           THEN Del(d.by_category, category)
                           ELSE [d.by_category EXCEPT ![category] =
                                    [count |-> @.count - 1, size |-> @.size - metadata.size]]
                      ELSE d.by_category
             files1 == Del(d.files, path)
         IN [d EXCEPT !.files = files1,
                      !.file_order = SelectSeq(@, LAMBDA p : p # path),
                      !.file_count = Cardinality(DOMAIN files1),
                      !.extensions = exts1,
                      !.by_category = cats1,
                      !.total_size = d.total_size - metadata.size]
    ELSE d

\* FileDatabase.get_file
\* (a sequence: empty for None, else holding the record)
get_file(d, path) == IF path \in DOMAIN d.files THEN <<d.files[path]>> ELSE <<>>

\* the length add_history_entry limits the history to
HistoryLimit == 1000

\* add_history_entry that drops the new entry when the history is full
add_history_entry_keeps_oldest(d, action, details) ==
    LET appended == Append(d.history, [action |-> action, details |-> details])
    IN [d EXCEPT !.history =
           IF Len(appended) > HistoryLimit
           THEN SubSeq(appended, 1, HistoryLimit)
           ELSE appended]

\* FileDatabase.add_history_entry
add_history_entry(d, action, details) ==
    LET appended == Append(d.history, [action |-> action, details |-> details])
    IN [d EXCEPT !.history =
           IF Len(appended) > HistoryLimit
           THEN SubSeq(appended, Len(appended) - HistoryLimit + 1, Len(appended))
           ELSE appended]

\* FileDatabase.get_all_files: the records' paths in the order the dict yields them
get_all_files(d) == d.file_order

\* FileDatabase.get_stats
get_stats(d) == [total_size |-> d.total_size, by_category |-> d.by_category]


(***************************************************************************)
(* Construction of the components                                          *)
(***************************************************************************)
\* DuplicateFinder.__init__
InitDF ==
    [processing |-> FALSE, processed_files |-> 0, total_files |-> 0,
     cancel_requested |-> FALSE, duplicates |-> <<>>]

\* FileOrganizer.__init__
InitOrg ==
    [processing |-> FALSE, cancel_requested |-> FALSE,
     processed_files |-> 0, total_files |-> 0, current_file |-> <<>>]

\* FileScanner.__init__
InitSc ==
    [scanning |-> FALSE, scan_queue |-> <<>>, scan_results |-> <<>>,
     scan_thread |-> <<>>, processed_files |-> 0, total_files |-> 0,
     current_file |-> <<>>, cancel_scan |-> FALSE]

\* ConfigManager: the defaults of the options the components read
DefaultConfig ==
    [naming_convention |-> "camel", compare_method |-> "content",
     min_size |-> 1, hash_algorithm |-> "sha256"]

(***************************************************************************)
(* Specification Spec: the Catalog under add_file and remove_file          *)
(***************************************************************************)
MaxOps == 4

RootDir == <<"r">>

CatalogPaths ==
    {[dir |-> RootDir, name |-> <<"a",".","m","d">>],
     [dir |-> RootDir, name |-> <<"b",".","M","D">>],
     [dir |-> RootDir, name |-> <<"c",".","j","p","g">>],
     [dir |-> RootDir, name |-> <<"d">>]}

CatalogSizes == {1, 2}

\* The record FileScanner._process_file builds for a file of the given size,
\* creation time and content (the hash stands for the digest of the content)
Metadata(path, size, created, hash) ==
    [size      |-> size,
     created   |-> created,
     name      |-> path.name,
     extension |-> Lower(SplitExt(path.name)),
     path      |-> path.dir,
     category  |-> CategoryForExtension(SplitExt(path.name)),
     hash      |-> hash]

CatInit ==
    /\ db = EmptyDb
    /\ fs = EmptyMap
    /\ df = InitDF /\ dfw = EmptyMap
    /\ org = InitOrg /\ orgw = EmptyMap
    /\ sc = InitSc /\ scw = EmptyMap
    /\ cfg = DefaultConfig
    /\ obs = [nops |-> 0, op |-> "none", path |-> None, pre |-> get_stats(db), roundtrip |-> FALSE]

\* A caller (the scanner on a first scan or a rescan) calls db.add_file
AddFile(path, size) ==
    /\ obs.nops < MaxOps
    /\ db' = add_file(db, path, Metadata(path, size, 1, "h"))
    /\ obs' = [nops |-> obs.nops + 1, op |-> "add", path |-> path,
               pre |-> get_stats(db), roundtrip |-> FALSE]
    /\ UNCHANGED <<fs, df, dfw, org, orgw, sc, scw, cfg>>

\* A caller calls db.remove_file
RemoveFile(path) ==
    /\ obs.nops < MaxOps
    /\ db' = remove_file(db, path)
    /\ obs' = [nops |-> obs.nops + 1, op |-> "remove", path |-> path,
               pre |-> IF obs.op = "add" /\ obs.path = path THEN obs.pre ELSE get_stats(db),
               roundtrip |-> (obs.op = "add" /\ obs.path = path)]
    /\ UNCHANGED <<fs, df, dfw, org, orgw, sc, scw, cfg>>

CatNext ==
    \/ \E path \in CatalogPaths, size \in CatalogSizes : AddFile(path, size)
    \/ \E path \in CatalogPaths : RemoveFile(path)

Spec == CatInit /\ [][CatNext]_vars

SizeOfRecord(d) == [p \in DOMAIN d.files |-> d.files[p].size]
CountOfCategory(d) == [c \in DOMAIN d.by_category |-> d.by_category[c].count]

\* C1: after any sequence of add_file and remove_file calls, total_size is the
\* sum of the sizes of the records in files, and the by_category counts add up
\* to the number of records.
C1_StatsMatchRecords ==
    /\ db.total_size = SumOver(SizeOfRecord(db), DOMAIN db.files)
    /\ SumOver(CountOfCategory(db), DOMAIN db.by_category) = Cardinality(DOMAIN db.files)

\* C2: add_file(path, record) followed at once by remove_file(path) returns
\* total_size and every per-category count and size to their values before the
\* add; a category entry absent before the add is absent after the remove.
C2_AddRemoveRoundTrip ==
    (obs.op = "remove" /\ obs.roundtrip) => get_stats(db) = obs.pre

\* C2 witness: a round trip has been made from a catalog that already held files
\* but none of the added file's category
C2_Witness ==
    /\ obs.op = "remove" /\ obs.roundtrip
    /\ obs.pre.total_size > 0
    /\ CategoryForExtension(SplitExt(obs.path.name)) \notin DOMAIN obs.pre.by_category


(***************************************************************************)
(* Dates: datetime.fromtimestamp and strftime (the local time zone is UTC) *)
(***************************************************************************)
SecondsPerDay == 86400

\* datetime.datetime.fromtimestamp(created): the civil date of an epoch time.
\* The days since 0000-03-01 are split into a 400-year era, the day of the era,
\* the year of the era and the day of the (March-based) year.
YearOfEra(doe) == (doe - (doe \div 1460) + (doe \div 36524) - (doe \div 146096)) \div 365

CivilFromDayOfYear(y, doy) ==
    LET mp == (5 * doy + 2) \div 153
    IN [year  |-> y + (IF mp >= 10 THEN 1 ELSE 0),
        month |-> IF mp < 10 THEN mp + 3 ELSE mp - 9,
        day   |-> doy - ((153 * mp + 2) \div 5) + 1]

CivilFromDayOfEra(era, doe) ==
    CivilFromDayOfYear(era * 400 + YearOfEra(doe),
                       doe - (365 * YearOfEra(doe) + (YearOfEra(doe) \div 4)
                                - (YearOfEra(doe) \div 100)))

DateOf(ts) ==
    CivilFromDayOfEra(((ts \div SecondsPerDay) + 719468) \div 146097,
                      ((ts \div SecondsPerDay) + 719468) % 146097)

\* a number as zero-padded decimal digits (%Y: 4 digits, %m and %d: 2 digits)
DigitsOf(n, width) == [i \in 1..width |-> Digits[((n \div (10 ^ (width - i))) % 10) + 1]]

\* a sequence of characters as one string
RECURSIVE StrOf(_)
StrOf(s) == IF s = <<>> THEN "" ELSE Head(s) \o StrOf(Tail(s))

(***************************************************************************)
(* Organization rules: FileOrganizer._apply_rules                          *)
(*                                                                         *)
(* A destination template is a sequence of path segments; a segment is a   *)
(* sequence of tokens, each a literal string or one of the placeholders.   *)
(* A rule is [type, category, extension, destination]; a key the rule     *)
(* document does not have is None (category) or empty (extension,         *)
(* destination).  No destination (Python's None) is the empty directory.   *)
(***************************************************************************)
\* the str.replace calls of the category branch on one token
ReplaceCategoryToken(tok, metadata) ==
    LET date == DateOf(metadata.created)
    IN IF tok = "{category}" THEN metadata.category
       ELSE IF tok = "{extension}" /\ metadata.extension # <<>>
            THEN StrOf(Tail(Lower(metadata.extension)))
       ELSE IF metadata.created = 0 THEN tok
       ELSE IF tok = "{year}" THEN StrOf(DigitsOf(date.year, 4))
       ELSE IF tok = "{month}" THEN StrOf(DigitsOf(date.month, 2))
       ELSE IF tok = "{day}" THEN StrOf(DigitsOf(date.day, 2))
       ELSE IF tok = "{date}"
            THEN StrOf(DigitsOf(date.year, 4)) \o "-" \o StrOf(DigitsOf(date.month, 2))
                 \o "-" \o StrOf(DigitsOf(date.day, 2))
       ELSE tok

\* the str.replace call of the extension branch on one token
ReplaceExtensionToken(tok, metadata) ==
    IF tok = "{extension}" /\ metadata.extension # <<>>
    THEN StrOf(Tail(Lower(metadata.extension)))
    ELSE tok

\* the str.replace calls of the date branch on one token
ReplaceDateToken(tok, metadata) ==
    LET date == DateOf(metadata.created)
    IN IF tok = "{year}" THEN StrOf(DigitsOf(date.year, 4))
       ELSE IF tok = "{month}" THEN StrOf(DigitsOf(date.month, 2))
       ELSE IF tok = "{day}" THEN StrOf(DigitsOf(date.day, 2))
       ELSE IF tok = "{date}"
            THEN StrOf(DigitsOf(date.year, 4)) \o "-" \o StrOf(DigitsOf(date.month, 2))
                 \o "-" \o StrOf(DigitsOf(date.day, 2))
       ELSE tok

ReplaceToken(type, tok, metadata) ==
    CASE type = "category"  -> ReplaceCategoryToken(tok, metadata)
      [] type = "extension" -> ReplaceExtensionToken(tok, metadata)
      [] type = "date"      -> ReplaceDateToken(tok, metadata)

\* the tokens of one segment, replaced and concatenated
RECURSIVE SegmentText(_, _, _)
SegmentText(type, segment, metadata) ==
    IF segment = <<>> THEN ""
    ELSE ReplaceToken(type, Head(segment), metadata) \o SegmentText(type, Tail(segment), metadata)

\* rule.get("destination", default)
DestinationPattern(rule) ==
    IF rule.destination # <<>> THEN rule.destination
    ELSE CASE rule.type = "category"  -> << <<"{category}">> >>
           [] rule.type = "extension" -> << <<"{extension}">> >>
           [] rule.type = "date"      -> << <<"{year}">>, <<"{month}">> >>

\* whether a rule applies to a file: the `continue` conditions of the three branches
RuleMatches(rule, metadata) ==
    CASE rule.type = "category" ->
            ~(rule.category # None /\ metadata.category # rule.category)
      [] rule.type = "extension" ->
            ~(rule.extension # <<>> /\ Lower(metadata.extension) # Lower(rule.extension))
      [] rule.type = "date" -> metadata.created # 0
      [] OTHER -> FALSE

\* the destination a matching rule computes: os.path.join(os.path.dirname(file_path), destination)
RuleDestination(rule, path, metadata) ==
    LET pattern == DestinationPattern(rule)
    IN path.dir \o [i \in 1..Len(pattern) |-> SegmentText(rule.type, pattern[i], metadata)]

\* `return None`: no rule applied
NoDestination == <<>>

\* _apply_rules in which a later matching rule overrides an earlier one
RECURSIVE apply_rules_last_match_wins(_, _, _)
apply_rules_last_match_wins(path, metadata, rules) ==
    IF rules = <<>> THEN NoDestination
    ELSE LET later == apply_rules_last_match_wins(path, metadata, Tail(rules))
         IN IF later # NoDestination THEN later
            ELSE IF RuleMatches(Head(rules), metadata)
                 THEN RuleDestination(Head(rules), path, metadata)
                 ELSE NoDestination

\* FileOrganizer._apply_rules: the for loop over rules, returning inside the first
\* branch that does not `continue`
RECURSIVE apply_rules(_, _, _)
apply_rules(path, metadata, rules) ==
    IF rules = <<>> THEN NoDestination
    ELSE IF RuleMatches(Head(rules), metadata)
         THEN RuleDestination(Head(rules), path, metadata)
         ELSE apply_rules(path, metadata, Tail(rules))

\* FileOrganizer._generate_default_rules
generate_default_rules ==
    << [type |-> "category", category |-> None, extension |-> <<>>,
        destination |-> << <<"{category}">> >>],
       [type |-> "category", category |-> "Images", extension |-> <<>>,
        destination |-> << <<"Images">>, <<"{year}">>, <<"{month}">> >>],
       [type |-> "category", category |-> "Documents", extension |-> <<>>,
        destination |-> << <<"Documents">>, <<"{year}">> >>] >>


(***************************************************************************)
(* Specification SpecRules: _apply_rules on bounded inputs                 *)
(***************************************************************************)
MaxRules == 2

\* 2024-03-10, 2023-01-01 (00:00:00 UTC), and 0 for a record without a creation time
CreatedTimes == {0, 1710028800, 1672531200}

RuleFiles ==
    {[dir |-> RootDir, name |-> <<"a",".","m","d">>],
     [dir |-> RootDir, name |-> <<"c",".","J","P","G">>],
     [dir |-> RootDir, name |-> <<"e",".","p","y">>],
     [dir |-> RootDir, name |-> <<"d">>]}

RuleUniverse ==
    {generate_default_rules[1], generate_default_rules[2], generate_default_rules[3],
     [type |-> "extension", category |-> None, extension |-> <<".","M","D">>,
      destination |-> << <<"{extension}", "_files">> >>],
     [type |-> "date", category |-> None, extension |-> <<>>, destination |-> <<>>],
     [type |-> "size", category |-> None, extension |-> <<>>,
      destination |-> << <<"big">> >>]}

RuleLists == UNION {[1..n -> RuleUniverse] : n \in 0..MaxRules}

RulesInit ==
    /\ db = EmptyDb
    /\ fs = EmptyMap
    /\ df = InitDF /\ dfw = EmptyMap
    /\ org = InitOrg /\ orgw = EmptyMap
    /\ sc = InitSc /\ scw = EmptyMap
    /\ cfg = DefaultConfig
    /\ \E path \in RuleFiles, created \in CreatedTimes, given \in BOOLEAN, rules \in RuleLists :
          /\ (~given => rules = <<>>)
          /\ obs = [stage |-> "input", path |-> path,
                    metadata |-> Metadata(path, 1, created, "h"),
                    rules |-> [given |-> given, list |-> rules],
                    result |-> NoDestination]

\* _organize_thread: `if rules is None: rules = self._generate_default_rules(directory)`
EffectiveRules(rules) == IF ~rules.given THEN generate_default_rules ELSE rules.list

\* _organize_thread computes the destination of one file
ApplyRules ==
    /\ obs.stage = "input"
    /\ obs' = [obs EXCEPT !.stage = "applied",
                          !.result = apply_rules(obs.path, obs.metadata,
                                                 EffectiveRules(obs.rules))]
    /\ UNCHANGED <<db, fs, df, dfw, org, orgw, sc, scw, cfg>>

RulesNext == ApplyRules

SpecRules == RulesInit /\ [][RulesNext]_vars

MatchingRules(rules, metadata) == {i \in 1..Len(rules) : RuleMatches(rules[i], metadata)}
FirstMatch(rules, metadata) ==
    CHOOSE i \in MatchingRules(rules, metadata) :
        \A j \in MatchingRules(rules, metadata) : i <= j

\* C8: the destination _apply_rules returns is the one computed from the first
\* rule in list order that matches the file, whatever later rules match; when no
\* rule matches the result is no destination.
C8_FirstMatchingRuleWins ==
    obs.stage = "applied" =>
        LET rules == EffectiveRules(obs.rules)
        IN IF MatchingRules(rules, obs.metadata) = {}
           THEN obs.result = NoDestination
           ELSE obs.result =
                   RuleDestination(rules[FirstMatch(rules, obs.metadata)],
                                   obs.path, obs.metadata)

\* C8 witness: two rules of the list match the file and compute different
\* destinations, and the result is the earlier rule's
C8_Witness ==
    /\ obs.stage = "applied"
    /\ obs.rules.given
    /\ \E i, j \in MatchingRules(obs.rules.list, obs.metadata) :
          /\ i < j
          /\ RuleDestination(obs.rules.list[i], obs.path, obs.metadata)
               # RuleDestination(obs.rules.list[j], obs.path, obs.metadata)
          /\ obs.result = RuleDestination(obs.rules.list[i], obs.path, obs.metadata)

\* the folder the claim names for a file, below the file's parent directory
DefaultFolderClaimed(metadata) ==
    LET date == DateOf(metadata.created)
    IN CASE metadata.category = "Images" ->
               <<"Images", StrOf(DigitsOf(date.year, 4)), StrOf(DigitsOf(date.month, 2))>>
         [] metadata.category = "Documents" ->
               <<"Documents", StrOf(DigitsOf(date.year, 4))>>
         [] OTHER -> <<metadata.category>>

\* C9: with the default rule set a file of category Images goes to
\* Images/<year>/<month> of its creation time, a file of category Documents to
\* Documents/<year>, a file of any other category to the folder named after its
\* category, each below the file's current parent directory.
C9_DefaultRuleDestinations ==
    (obs.stage = "applied" /\ ~obs.rules.given /\ obs.metadata.created # 0) =>
        obs.result = obs.path.dir \o DefaultFolderClaimed(obs.metadata)


(***************************************************************************)
(* Rename suggestions: FileOrganizer.get_rename_suggestions                *)
(***************************************************************************)
\* the character classes of the regular expressions: \w, \s, [\s_-], [\s-], [\s_], [_-]
IsWordChar(c) == IsIn(c, Lowers) \/ IsIn(c, Uppers) \/ IsIn(c, Digits) \/ c = "_"
IsSpaceChar(c) == c = " "
IsCamelSep(c) == IsSpaceChar(c) \/ c = "_" \/ c = "-"
IsSnakeSep(c) == IsSpaceChar(c) \/ c = "-"
IsKebabSep(c) == IsSpaceChar(c) \/ c = "_"
IsNormalSep(c) == c = "_" \/ c = "-"
IsSep(class, c) ==
    CASE class = "camel"  -> IsCamelSep(c)
      [] class = "snake"  -> IsSnakeSep(c)
      [] class = "kebab"  -> IsKebabSep(c)
      [] class = "normal" -> IsNormalSep(c)
      [] class = "space"  -> IsSpaceChar(c)

\* re.sub(r'[^\w\s.-]', '', name)
RECURSIVE StripSpecial(_)
StripSpecial(s) ==
    IF s = <<>> THEN <<>>
    ELSE IF IsWordChar(Head(s)) \/ IsSpaceChar(Head(s)) \/ Head(s) = "." \/ Head(s) = "-"
         THEN <<Head(s)>> \o StripSpecial(Tail(s))
         ELSE StripSpecial(Tail(s))

\* re.split(r'[...]+', s): the tokens between runs of separators; a run at either
\* end of s leaves an empty token there
RECURSIVE SplitRuns(_, _, _, _)
SplitRuns(class, s, cur, inrun) ==
    IF s = <<>> THEN <<cur>>
    ELSE IF IsSep(class, Head(s))
         THEN IF inrun THEN SplitRuns(class, Tail(s), cur, TRUE)
              ELSE <<cur>> \o SplitRuns(class, Tail(s), <<>>, TRUE)
         ELSE SplitRuns(class, Tail(s), Append(cur, Head(s)), FALSE)
ReSplit(class, s) == SplitRuns(class, s, <<>>, FALSE)

\* str.split(): the non-empty tokens between runs of whitespace
StrSplit(s) == SelectSeq(ReSplit("space", s), LAMBDA tok : tok # <<>>)

\* re.sub(r'[...]+', repl, s): every run of separators replaced by one repl
RECURSIVE ReSubRuns(_, _, _, _)
ReSubRuns(class, repl, s, inrun) ==
    IF s = <<>> THEN <<>>
    ELSE IF IsSep(class, Head(s))
         THEN (IF inrun THEN <<>> ELSE <<repl>>) \o ReSubRuns(class, repl, Tail(s), TRUE)
         ELSE <<Head(s)>> \o ReSubRuns(class, repl, Tail(s), FALSE)

\* str.capitalize
Capitalize(w) == [i \in 1..Len(w) |-> IF i = 1 THEN UpperChar(w[1]) ELSE LowerChar(w[i])]

\* glue.join(word.capitalize() for word in words)
RECURSIVE JoinCapitalized(_, _)
JoinCapitalized(words, glue) ==
    IF words = <<>> THEN <<>>
    ELSE IF Len(words) = 1 THEN Capitalize(words[1])
    ELSE Capitalize(Head(words)) \o glue \o JoinCapitalized(Tail(words), glue)

\* the naming convention applied to the cleaned name
ApplyConvention(convention, s) ==
    CASE convention = "camel" -> JoinCapitalized(ReSplit("camel", s), <<>>)
      [] convention = "snake" -> ReSubRuns("snake", "_", Lower(s), FALSE)
      [] convention = "kebab" -> ReSubRuns("kebab", "-", Lower(s), FALSE)
      [] OTHER -> JoinCapitalized(StrSplit(ReSubRuns("normal", " ", s, FALSE)), <<" ">>)

\* date.strftime("%Y-%m-%d_")
DatePrefix(created) ==
    LET date == DateOf(created)
    IN DigitsOf(date.year, 4) \o <<"-">> \o DigitsOf(date.month, 2) \o <<"-">>
       \o DigitsOf(date.day, 2) \o <<"_">>

\* the suggested name get_rename_suggestions builds for one catalog record
SuggestedName(metadata, convention) ==
    LET cleaned == ApplyConvention(convention, StripSpecial(metadata.name))
        dated == IF metadata.created # 0 /\ ~StartsWith(cleaned, DatePrefix(metadata.created))
                 THEN DatePrefix(metadata.created) \o cleaned
                 ELSE cleaned
        extension == Lower(metadata.extension)
    IN IF extension # <<>> /\ ~EndsWith(dated, extension)
       THEN dated \o extension
       ELSE dated

\* FileOrganizer.get_rename_suggestions: the suggestions for a list of files, in order
RECURSIVE get_rename_suggestions(_, _, _)
get_rename_suggestions(d, convention, files) ==
    IF files = <<>> THEN <<>>
    ELSE LET file_path == Head(files)
             rest == get_rename_suggestions(d, convention, Tail(files))
         IN IF get_file(d, file_path) = <<>> THEN rest
            ELSE LET metadata == get_file(d, file_path)[1]
                     suggested_name == SuggestedName(metadata, convention)
                 IN IF suggested_name # metadata.name
                    THEN <<[file_path |-> file_path,
                            original_name |-> metadata.name,
                            suggested_name |-> suggested_name]>> \o rest
                    ELSE rest


(***************************************************************************)
(* Bounds on the requests a behaviour makes                                *)
(***************************************************************************)
MaxRequests == 2

(***************************************************************************)
(* The filesystem.  fs maps each existing path to its entry: a file        *)
(* [kind, ino, size, created, content] or a symbolic link [kind, target].  *)
(* Directories are implicit.                                               *)
(***************************************************************************)
\* The regular file a path leads to, following symbolic links: <<>> when the path
\* or a link's target is missing (or the links loop), else <<path of the file>>
RECURSIVE ResolveLink(_, _, _)
ResolveLink(f, path, fuel) ==
    IF path \notin DOMAIN f THEN <<>>
    ELSE IF f[path].kind = "file" THEN <<path>>
    ELSE IF fuel = 0 THEN <<>>
    ELSE ResolveLink(f, f[path].target, fuel - 1)

\* os.stat(path), which follows links: <<>> when it raises FileNotFoundError
StatPath(f, path) ==
    LET r == ResolveLink(f, path, Cardinality(DOMAIN f))
    IN IF r = <<>> THEN <<>> ELSE <<f[r[1]]>>

\* the directory entry at a path (os.lstat): <<>> when there is none
EntryAt(f, path) == IF path \in DOMAIN f THEN <<f[path]>> ELSE <<>>

\* the content read through a path: <<>> when open raises, else <<content>>
ContentAt(f, path) ==
    IF StatPath(f, path) = <<>> THEN <<>> ELSE <<StatPath(f, path)[1].content>>

\* os.path.exists(os.path.join(dir, name)): a file or an unbroken link at the
\* path, or a name that denotes the directory itself
PathExists(f, path) ==
    StatPath(f, path) # <<>> \/ path.name \in {<<>>, <<".">>, <<".", ".">>}

\* os.rename / shutil.move of an existing entry to a free path
MoveEntry(f, old, new) == Put(Del(f, old), new, f[old])

\* a thread id not in use
FreshTid(workers) ==
    CHOOSE t \in 1..(Cardinality(DOMAIN workers) + 1) : t \notin DOMAIN workers

(***************************************************************************)
(* FileOrganizer.auto_rename and _rename_thread                            *)
(***************************************************************************)
\* the callback period of _rename_thread and _organize_thread
CallbackEvery == 10

\* FileOrganizer.get_progress
OrgProgress(o) ==
    [processed |-> o.processed_files, total |-> o.total_files, processing |-> o.processing]

\* FileOrganizer.auto_rename(files, rename_mapping=None, callback)
AutoRename(files) ==
    /\ obs.requests < MaxRequests
    /\ IF org.processing
       THEN /\ obs' = [obs EXCEPT !.requests = @ + 1, !.accepted = FALSE,
                                  !.busy = (orgw # EmptyMap)]
            /\ UNCHANGED <<org, orgw>>
       ELSE /\ org' = [org EXCEPT !.processing = TRUE, !.cancel_requested = FALSE,
                                  !.processed_files = 0, !.total_files = Len(files),
                                  !.current_file = <<>>]
            /\ orgw' = Put(orgw, FreshTid(orgw),
                           [kind |-> "rename", pc |-> "start", files |-> files,
                            rename_mapping |-> EmptyMap, i |-> 1])
            /\ obs' = [obs EXCEPT !.requests = @ + 1, !.accepted = TRUE,
                                  !.busy = (orgw # EmptyMap)]
    /\ UNCHANGED <<db, fs, df, dfw, sc, scw, cfg>>

\* FileOrganizer.cancel
OrgCancel ==
    /\ ~org.cancel_requested
    /\ org' = [org EXCEPT !.cancel_requested = TRUE]
    /\ UNCHANGED <<db, fs, df, dfw, orgw, sc, scw, cfg, obs>>

\* _rename_thread: rename_mapping is None, so it is built from get_rename_suggestions
RenameGenerate(tid) ==
    /\ tid \in DOMAIN orgw /\ orgw[tid].kind = "rename" /\ orgw[tid].pc = "start"
    /\ \E suggestions \in {get_rename_suggestions(db, cfg.naming_convention, orgw[tid].files)} :
       LET mapped == {suggestions[k].file_path : k \in 1..Len(suggestions)}
           mapping == [p \in mapped |->
                          LET k == CHOOSE k \in 1..Len(suggestions) :
                                      /\ suggestions[k].file_path = p
                                      /\ \A j \in 1..Len(suggestions) :
                                            suggestions[j].file_path = p => j <= k
                          IN suggestions[k].suggested_name]
       IN orgw' = [orgw EXCEPT ![tid].rename_mapping = mapping, ![tid].pc = "loop"]
    /\ UNCHANGED <<db, fs, df, dfw, org, sc, scw, cfg, obs>>

\* the database update of _rename_thread after a successful os.rename
RenameInDb(d, file_path, new_path, new_name) ==
    LET moved == IF get_file(d, file_path) # <<>>
                 THEN add_file(remove_file(d, file_path), new_path,
                               [get_file(d, file_path)[1] EXCEPT !.name = new_name,
                                                                 !.path = file_path.dir])
                 ELSE d
    IN add_history_entry(moved, "rename",
                         [original_path |-> file_path, new_path |-> new_path])

\* _rename_thread: one iteration of `for file_path in files`; renamed is whether
\* os.rename succeeds when it is called
RenameFile(tid, renamed) ==
    /\ tid \in DOMAIN orgw /\ orgw[tid].kind = "rename" /\ orgw[tid].pc = "loop"
    /\ orgw[tid].i <= Len(orgw[tid].files)
    /\ LET w == orgw[tid]
           file_path == w.files[w.i]
           new_name == w.rename_mapping[file_path]
           new_path == [dir |-> file_path.dir, name |-> new_name]
       IN IF org.cancel_requested
          THEN /\ orgw' = [orgw EXCEPT ![tid].pc = "final"]
               /\ renamed
               /\ UNCHANGED <<db, fs, org, obs>>
          ELSE IF file_path \notin DOMAIN w.rename_mapping
          THEN /\ orgw' = [orgw EXCEPT ![tid].i = @ + 1]
               /\ org' = [org EXCEPT !.current_file = <<file_path>>,
                                     !.processed_files = @ + 1]
               /\ renamed
               /\ UNCHANGED <<db, fs, obs>>
          ELSE IF PathExists(fs, new_path)
          THEN /\ orgw' = [orgw EXCEPT ![tid].i = @ + 1]
               /\ org' = [org EXCEPT !.current_file = <<file_path>>,
                                     !.processed_files = @ + 1]
               /\ renamed
               /\ UNCHANGED <<db, fs, obs>>
          ELSE /\ orgw' = [orgw EXCEPT ![tid].i = @ + 1]
               /\ org' = [org EXCEPT !.current_file = <<file_path>>,
                                     !.processed_files = @ + 1]
               /\ IF renamed /\ file_path \in DOMAIN fs
                  THEN /\ fs' = MoveEntry(fs, file_path, new_path)
                       /\ db' = RenameInDb(db, file_path, new_path, new_name)
                  ELSE UNCHANGED <<db, fs>>
               /\ obs' = IF (org.processed_files + 1) % CallbackEvery = 0
                         THEN [obs EXCEPT !.callbacks = @ + 1,
                                          !.last_callback = OrgProgress(org')]
                         ELSE obs
    /\ UNCHANGED <<df, dfw, sc, scw, cfg>>

\* _rename_thread after the loop: db.save() and the final callback
RenameFinal(tid) ==
    /\ tid \in DOMAIN orgw /\ orgw[tid].kind = "rename"
    /\ \/ orgw[tid].pc = "final"
       \/ orgw[tid].pc = "loop" /\ orgw[tid].i > Len(orgw[tid].files)
    /\ orgw' = [orgw EXCEPT ![tid].pc = "finally"]
    /\ obs' = [obs EXCEPT !.callbacks = @ + 1, !.last_callback = OrgProgress(org)]
    /\ UNCHANGED <<db, fs, df, dfw, org, sc, scw, cfg>>

\* the `finally` clause of the organizer's threads: self.processing = False
OrgFinally(tid) ==
    /\ tid \in DOMAIN orgw /\ orgw[tid].pc = "finally"
    /\ org' = [org EXCEPT !.processing = FALSE]
    /\ orgw' = Del(orgw, tid)
    /\ UNCHANGED <<db, fs, df, dfw, sc, scw, cfg, obs>>


(***************************************************************************)
(* Specification SpecRename: auto_rename on one cataloged file             *)
(***************************************************************************)
MaxNameLen == 2

NameChars == {"a", "B", " ", "_", "-", ".", "!"}

\* the names a file can have
ValidNames ==
    {n \in UNION {[1..k -> NameChars] : k \in 1..MaxNameLen} :
        n \notin {<<".">>, <<".", ".">>}}

Conventions == {"camel", "snake", "kebab", "normal"}

\* a regular file as os.stat and the hash of its content describe it
FileEntry(ino, size, created, content) ==
    [kind |-> "file", ino |-> ino, size |-> size, created |-> created, content |-> content]

\* FileScanner._process_file on an existing regular file
ProcessFile(f, path) ==
    Metadata(path, StatPath(f, path)[1].size, StatPath(f, path)[1].created,
             StatPath(f, path)[1].content)

NoCallback == [processed |-> 0, total |-> 0, processing |-> FALSE]

RenameInit ==
    /\ df = InitDF /\ dfw = EmptyMap
    /\ org = InitOrg /\ orgw = EmptyMap
    /\ sc = InitSc /\ scw = EmptyMap
    /\ \E name \in ValidNames, created \in {0, 1710028800}, convention \in Conventions :
          LET path == [dir |-> RootDir, name |-> name]
          IN /\ fs = (path :> FileEntry(1, 1, created, "x"))
             /\ db = add_file(EmptyDb, path, ProcessFile(fs, path))
             /\ cfg = [DefaultConfig EXCEPT !.naming_convention = convention]
    /\ obs = [requests |-> 0, accepted |-> FALSE, busy |-> FALSE, callbacks |-> 0,
              last_callback |-> NoCallback]

RenameNext ==
    \/ \E path \in DOMAIN db.files : AutoRename(<<path>>)
    \/ OrgCancel
    \/ \E tid \in DOMAIN orgw : RenameGenerate(tid)
    \/ \E tid \in DOMAIN orgw, renamed \in BOOLEAN : RenameFile(tid, renamed)
    \/ \E tid \in DOMAIN orgw : RenameFinal(tid)
    \/ \E tid \in DOMAIN orgw : OrgFinally(tid)

SpecRename == RenameInit /\ [][RenameNext]_vars

\* C10: after auto_rename has renamed a cataloged file to its suggested name,
\* get_rename_suggestions on the renamed file yields no suggestion, for every
\* naming convention.
C10_RenamedFileGetsNoSuggestion ==
    \A k \in 1..Len(db.history) :
        (db.history[k].action = "rename"
            /\ db.history[k].details.new_path \in DOMAIN db.files)
        => get_rename_suggestions(db, cfg.naming_convention,
                                  <<db.history[k].details.new_path>>) = <<>>


(***************************************************************************)
(* Ordered dictionaries (dict, defaultdict(list)): a sequence of           *)
(* [key, files] items in insertion order                                   *)
(***************************************************************************)
DictHas(dict, key) == \E i \in 1..Len(dict) : dict[i].key = key
DictIndex(dict, key) == CHOOSE i \in 1..Len(dict) : dict[i].key = key
DictGet(dict, key) == dict[DictIndex(dict, key)].files

\* dict[key] = files
DictSet(dict, key, files) ==
    IF DictHas(dict, key)
    THEN [dict EXCEPT ![DictIndex(dict, key)].files = files]
    ELSE Append(dict, [key |-> key, files |-> files])

\* defaultdict(list)[key].append(path)
DictAppend(dict, key, path) ==
    IF DictHas(dict, key)
    THEN [dict EXCEPT ![DictIndex(dict, key)].files = Append(@, path)]
    ELSE Append(dict, [key |-> key, files |-> <<path>>])

\* for path in paths: groups[keys of path].append(path)
RECURSIVE GroupByKeys(_, _, _)
GroupByKeys(paths, keys, acc) ==
    IF paths = <<>> THEN acc
    ELSE GroupByKeys(Tail(paths), Tail(keys), DictAppend(acc, Head(keys), Head(paths)))

\* the items of a dict whose list has more than one member
MultiMember(dict) == SelectSeq(dict, LAMBDA item : Len(item.files) > 1)

(***************************************************************************)
(* DuplicateFinder: the operations on one duplicate                        *)
(* Each takes the filesystem f and the catalog d and yields both after the *)
(* call; its last arguments say whether the operating system lets the      *)
(* calls it makes succeed.                                                 *)
(***************************************************************************)
\* a number in decimal, as f"{suffix}" writes it
RECURSIVE DecimalOf(_)
DecimalOf(n) ==
    IF n < 10 THEN <<Digits[n + 1]>>
    ELSE DecimalOf(n \div 10) \o <<Digits[(n % 10) + 1]>>

\* while os.path.exists(new_path): new_path = join(dir, f"{base}{infix}{suffix}{ext}")
RECURSIVE UniquePath(_, _, _, _, _, _)
UniquePath(f, dir, base, infix, ext, suffix) ==
    LET new_path == [dir |-> dir, name |-> base \o infix \o DecimalOf(suffix) \o ext]
    IN IF PathExists(f, new_path)
       THEN UniquePath(f, dir, base, infix, ext, suffix + 1)
       ELSE new_path

DuplicatesFolder == "Duplicates"

\* _move_duplicate: the path in the Duplicates folder of the parent directory
move_target(f, file_path) ==
    LET duplicates_dir == Append(file_path.dir, DuplicatesFolder)
        new_path == [dir |-> duplicates_dir, name |-> file_path.name]
    IN IF PathExists(f, new_path)
       THEN UniquePath(f, duplicates_dir, SplitBase(file_path.name), <<"_">>,
                       SplitExt(file_path.name), 1)
       ELSE new_path

DuplicateSuffix == <<"_", "d", "u", "p", "l", "i", "c", "a", "t", "e">>

\* _rename_duplicate: the path with the _duplicate suffix
rename_target(f, file_path) ==
    LET base == SplitBase(file_path.name)
        ext == SplitExt(file_path.name)
        new_path == [dir |-> file_path.dir, name |-> base \o DuplicateSuffix \o ext]
    IN IF PathExists(f, new_path)
       THEN UniquePath(f, file_path.dir, base, DuplicateSuffix \o <<"_">>, ext, 1)
       ELSE new_path

\* _delete_duplicate: send2trash / os.remove, then the catalog and the history
delete_duplicate(f, d, file_path, removed) ==
    IF removed /\ file_path \in DOMAIN f
    THEN [fs |-> Del(f, file_path),
          db |-> add_history_entry(remove_file(d, file_path), "delete_duplicate",
                                   [file_path |-> file_path])]
    ELSE [fs |-> f, db |-> d]

\* _move_duplicate: os.makedirs and shutil.move, then the catalog and the history
move_duplicate(f, d, file_path, moved) ==
    IF moved /\ file_path \in DOMAIN f
    THEN [fs |-> MoveEntry(f, file_path, move_target(f, file_path)),
          db |-> add_history_entry(remove_file(d, file_path), "move_duplicate",
                                   [original_path |-> file_path,
                                    new_path |-> move_target(f, file_path)])]
    ELSE [fs |-> f, db |-> d]

\* _symlink_duplicate: os.remove, then os.symlink, then the catalog and the history
symlink_duplicate(f, d, file_path, target_path, removed, linked) ==
    IF ~(removed /\ file_path \in DOMAIN f) THEN [fs |-> f, db |-> d]
    ELSE IF ~linked THEN [fs |-> Del(f, file_path), db |-> d]
    ELSE [fs |-> Put(f, file_path, [kind |-> "symlink", target |-> target_path]),
          db |-> add_history_entry(remove_file(d, file_path), "symlink_duplicate",
                                   [symlink_path |-> file_path,
                                    target_path |-> target_path])]

\* _hardlink_duplicate: os.remove, then os.link, then the catalog and the history
hardlink_duplicate(f, d, file_path, target_path, removed, linked) ==
    IF ~(removed /\ file_path \in DOMAIN f) THEN [fs |-> f, db |-> d]
    ELSE IF ~linked \/ StatPath(Del(f, file_path), target_path) = <<>>
    THEN [fs |-> Del(f, file_path), db |-> d]
    ELSE [fs |-> Put(f, file_path, StatPath(Del(f, file_path), target_path)[1]),
          db |-> add_history_entry(remove_file(d, file_path), "hardlink_duplicate",
                                   [hardlink_path |-> file_path,
                                    target_path |-> target_path])]

\* _rename_duplicate: os.rename, then the catalog (the renamed file is scanned
\* again with _process_file) and the history
rename_duplicate(f, d, file_path, renamed) ==
    IF renamed /\ file_path \in DOMAIN f
    THEN LET new_path == rename_target(f, file_path)
             f1 == MoveEntry(f, file_path, new_path)
             d1 == remove_file(d, file_path)
         IN [fs |-> f1,
             db |-> add_history_entry(
                        IF StatPath(f1, new_path) # <<>>
                        THEN add_file(d1, new_path, ProcessFile(f1, new_path))
                        ELSE d1,
                        "rename_duplicate",
                        [original_path |-> file_path, new_path |-> new_path])]
    ELSE [fs |-> f, db |-> d]

Methods == {"delete", "move", "symlink", "hardlink", "rename"}

\* _resolve_thread: the dispatch on resolution_method for one non-keeper
apply_method(method, f, d, file_path, file_to_keep, done, linked) ==
    IF method = "delete" THEN delete_duplicate(f, d, file_path, done)
    ELSE IF method = "move" THEN move_duplicate(f, d, file_path, done)
    ELSE IF method = "symlink"
    THEN symlink_duplicate(f, d, file_path, file_to_keep, done, linked)
    ELSE IF method = "hardlink"
    THEN hardlink_duplicate(f, d, file_path, file_to_keep, done, linked)
    ELSE IF method = "rename" THEN rename_duplicate(f, d, file_path, done)
    ELSE [fs |-> f, db |-> d]

\* _resolve_thread, "Determine which file to keep": the loop that keeps the
\* oldest file (oldest_time is <<>> for float('inf')).  The keep_filter the GUI
\* passes (_resolve_duplicates) is the same loop.
RECURSIVE KeepOldestFrom(_, _, _, _)
KeepOldestFrom(d, file_list, file_to_keep, oldest_time) ==
    IF file_list = <<>> THEN file_to_keep
    ELSE IF get_file(d, Head(file_list)) # <<>>
            /\ (oldest_time = <<>>
                \/ get_file(d, Head(file_list))[1].created < oldest_time[1])
    THEN KeepOldestFrom(d, Tail(file_list), Head(file_list),
                        <<get_file(d, Head(file_list))[1].created>>)
    ELSE KeepOldestFrom(d, Tail(file_list), file_to_keep, oldest_time)

\* a choice of the file to keep that takes the last of the oldest members
keep_oldest_last_of_ties(d, file_list) ==
    LET cataloged == {i \in 1..Len(file_list) : get_file(d, file_list[i]) # <<>>}
    IN IF cataloged = {} THEN file_list[1]
       ELSE file_list[CHOOSE i \in cataloged :
                \A j \in cataloged :
                    \/ d.files[file_list[i]].created < d.files[file_list[j]].created
                    \/ /\ d.files[file_list[i]].created = d.files[file_list[j]].created
                       /\ j <= i]

keep_oldest(d, file_list) == KeepOldestFrom(d, file_list, file_list[1], <<>>)

\* _resolve_thread: `if file_path == file_to_keep: continue`
\* first a variant that skips no member
SkipsNoMember(file_path, file_to_keep) == FALSE

SkipsKeeper(file_path, file_to_keep) == file_path = file_to_keep

(***************************************************************************)
(* DuplicateFinder: find_duplicates, cancel and _process_thread            *)
(***************************************************************************)
\* DuplicateFinder.get_duplicates
get_duplicates(o) == MultiMember(o.duplicates)

RECURSIVE SumExtra(_)
SumExtra(dict) ==
    IF dict = <<>> THEN 0 ELSE (Len(Head(dict).files) - 1) + SumExtra(Tail(dict))

\* DuplicateFinder.get_progress
DfProgress(o) ==
    [processed |-> o.processed_files, total |-> o.total_files,
     duplicates_found |-> SumExtra(MultiMember(o.duplicates)),
     processing |-> o.processing]

\* a worker thread of the DuplicateFinder, about to run its target
DfWorker(kind, method, given) ==
    [kind |-> kind, pc |-> "start", method |-> method, given |-> given,
     groups |-> <<>>, g |-> 1, j |-> 1, hash_groups |-> <<>>,
     keeper |-> <<>>, processed_groups |-> 0]

\* find_duplicates that starts a thread whether or not one is running
FindDuplicatesUnguarded ==
    /\ obs.requests < MaxRequests
    /\ df' = [df EXCEPT !.processing = TRUE, !.cancel_requested = FALSE,
                        !.processed_files = 0, !.duplicates = <<>>]
    /\ dfw' = Put(dfw, FreshTid(dfw), DfWorker("find", None, <<>>))
    /\ obs' = [obs EXCEPT !.requests = @ + 1, !.accepted = TRUE,
                          !.busy = (dfw # EmptyMap)]
    /\ UNCHANGED <<db, fs, org, orgw, sc, scw, cfg>>

\* DuplicateFinder.find_duplicates
FindDuplicates ==
    /\ obs.requests < MaxRequests
    /\ IF df.processing
       THEN /\ obs' = [obs EXCEPT !.requests = @ + 1, !.accepted = FALSE,
                                  !.busy = (dfw # EmptyMap)]
            /\ UNCHANGED <<df, dfw>>
       ELSE /\ df' = [df EXCEPT !.processing = TRUE, !.cancel_requested = FALSE,
                                !.processed_files = 0, !.duplicates = <<>>]
            /\ dfw' = Put(dfw, FreshTid(dfw), DfWorker("find", None, <<>>))
            /\ obs' = [obs EXCEPT !.requests = @ + 1, !.accepted = TRUE,
                                  !.busy = (dfw # EmptyMap)]
    /\ UNCHANGED <<db, fs, org, orgw, sc, scw, cfg>>

\* DuplicateFinder.cancel
DfCancel ==
    /\ ~df.cancel_requested
    /\ df' = [df EXCEPT !.cancel_requested = TRUE]
    /\ UNCHANGED <<db, fs, dfw, org, orgw, sc, scw, cfg, obs>>

\* f"name:{name}"
NameKey(name) == <<"n", "a", "m", "e", ":">> \o name

\* a content hash as a key of self.duplicates
HashKey(hash) == <<hash>>

\* "Group by name" and "Add duplicate groups": self.duplicates[f"name:{name}"] = file_list
RECURSIVE SetGroups(_, _)
SetGroups(dups, groups) ==
    IF groups = <<>> THEN dups
    ELSE SetGroups(DictSet(dups, Head(groups).key, Head(groups).files), Tail(groups))

AddNameGroups(dups, files) ==
    SetGroups(dups,
              MultiMember(GroupByKeys(files, [i \in 1..Len(files) |-> NameKey(files[i].name)],
                                      <<>>)))

\* "Add duplicate groups" of the content pass: extend an existing list, else set it
RECURSIVE MergeHashGroups(_, _)
MergeHashGroups(dups, hash_groups) ==
    IF hash_groups = <<>> THEN dups
    ELSE IF Head(hash_groups).key # HashKey("") /\ Len(Head(hash_groups).files) > 1
    THEN MergeHashGroups(
             IF DictHas(dups, Head(hash_groups).key)
             THEN DictSet(dups, Head(hash_groups).key,
                          DictGet(dups, Head(hash_groups).key) \o Head(hash_groups).files)
             ELSE DictSet(dups, Head(hash_groups).key, Head(hash_groups).files),
             Tail(hash_groups))
    ELSE MergeHashGroups(dups, Tail(hash_groups))

\* _process_thread up to the loop: total_files, "First pass: group by size" and
\* potential_dupes
FindStart(tid) ==
    /\ tid \in DOMAIN dfw /\ dfw[tid].kind = "find" /\ dfw[tid].pc = "start"
    /\ LET all_files == get_all_files(db)
           sized == SelectSeq(all_files, LAMBDA p : db.files[p].size >= cfg.min_size)
           size_groups == GroupByKeys(sized, [i \in 1..Len(sized) |-> db.files[sized[i]].size],
                                      <<>>)
       IN /\ df' = [df EXCEPT !.total_files = Len(all_files)]
          /\ dfw' = [dfw EXCEPT ![tid].groups = MultiMember(size_groups),
                                ![tid].g = 1, ![tid].pc = "group"]
    /\ UNCHANGED <<db, fs, org, orgw, sc, scw, cfg, obs>>

\* _process_thread: the head of one iteration of `for group_index, files in
\* enumerate(potential_dupes)`; with compare method name, the whole iteration
FindGroup(tid) ==
    /\ tid \in DOMAIN dfw /\ dfw[tid].kind = "find" /\ dfw[tid].pc = "group"
    /\ dfw[tid].g <= Len(dfw[tid].groups)
    /\ IF df.cancel_requested
       THEN /\ dfw' = [dfw EXCEPT ![tid].pc = "final"]
            /\ UNCHANGED df
       ELSE IF cfg.compare_method = "name"
       THEN /\ df' = [df EXCEPT !.duplicates =
                         AddNameGroups(@, dfw[tid].groups[dfw[tid].g].files)]
            /\ dfw' = [dfw EXCEPT ![tid].g = @ + 1]
       ELSE /\ dfw' = [dfw EXCEPT ![tid].pc = "files", ![tid].j = 1,
                                  ![tid].hash_groups = <<>>]
            /\ UNCHANGED df
    /\ UNCHANGED <<db, fs, org, orgw, sc, scw, cfg, obs>>

\* _process_thread: one iteration of `for file_path in files` of the content pass
FindHashFile(tid) ==
    /\ tid \in DOMAIN dfw /\ dfw[tid].kind = "find" /\ dfw[tid].pc = "files"
    /\ dfw[tid].j <= Len(dfw[tid].groups[dfw[tid].g].files)
    /\ LET w == dfw[tid]
           file_path == w.groups[w.g].files[w.j]
           metadata == get_file(db, file_path)
       IN IF df.cancel_requested
          THEN /\ dfw' = [dfw EXCEPT ![tid].pc = "merge"]
               /\ UNCHANGED <<df, obs>>
          ELSE /\ dfw' = [dfw EXCEPT
                             ![tid].j = @ + 1,
                             ![tid].hash_groups =
                                 IF metadata # <<>>
                                 THEN DictAppend(@, HashKey(metadata[1].hash), file_path)
                                 ELSE @]
               /\ df' = [df EXCEPT !.processed_files = @ + 1]
               /\ obs' = IF (w.g - 1) % CallbackEvery = 0
                         THEN [obs EXCEPT !.callbacks = @ + 1,
                                          !.last_callback = DfProgress(df')]
                         ELSE obs
    /\ UNCHANGED <<db, fs, org, orgw, sc, scw, cfg>>

\* _process_thread: the end of one iteration of the content pass: "Add duplicate
\* groups", and the name pass of compare method both
FindMerge(tid) ==
    /\ tid \in DOMAIN dfw /\ dfw[tid].kind = "find"
    /\ \/ dfw[tid].pc = "merge"
       \/ /\ dfw[tid].pc = "files"
          /\ dfw[tid].j > Len(dfw[tid].groups[dfw[tid].g].files)
    /\ df' = [df EXCEPT !.duplicates =
                 IF cfg.compare_method = "both"
                 THEN AddNameGroups(MergeHashGroups(@, dfw[tid].hash_groups),
                                    dfw[tid].groups[dfw[tid].g].files)
                 ELSE MergeHashGroups(@, dfw[tid].hash_groups)]
    /\ dfw' = [dfw EXCEPT ![tid].g = @ + 1, ![tid].pc = "group"]
    /\ UNCHANGED <<db, fs, org, orgw, sc, scw, cfg, obs>>

\* _process_thread after the loop: the final callback, with get_progress()
FindFinal(tid) ==
    /\ tid \in DOMAIN dfw /\ dfw[tid].kind = "find"
    /\ \/ dfw[tid].pc = "final"
       \/ dfw[tid].pc = "group" /\ dfw[tid].g > Len(dfw[tid].groups)
    /\ dfw' = [dfw EXCEPT ![tid].pc = "finally"]
    /\ obs' = [obs EXCEPT !.callbacks = @ + 1, !.last_callback = DfProgress(df)]
    /\ UNCHANGED <<db, fs, df, org, orgw, sc, scw, cfg>>

\* a thread end that leaves self.processing set
DfFinallyKeepsProcessing(tid) ==
    /\ tid \in DOMAIN dfw /\ dfw[tid].pc = "finally"
    /\ dfw' = Del(dfw, tid)
    /\ UNCHANGED <<db, fs, df, org, orgw, sc, scw, cfg, obs>>

\* the `finally` clause of the DuplicateFinder's threads: self.processing = False
DfFinally(tid) ==
    /\ tid \in DOMAIN dfw /\ dfw[tid].pc = "finally"
    /\ df' = [df EXCEPT !.processing = FALSE]
    /\ dfw' = Del(dfw, tid)
    /\ UNCHANGED <<db, fs, org, orgw, sc, scw, cfg, obs>>

(***************************************************************************)
(* DuplicateFinder: resolve_duplicates and _resolve_thread                 *)
(***************************************************************************)
\* what is recorded of a resolution pass: its method, the groups it was given,
\* the keeper chosen for each group it processed, whether it has completed,
\* the members the method was applied to (and whether that failed), and
\* whether the pass found cancel_requested set
NoPass ==
    [method |-> None, groups |-> <<>>, keepers |-> <<>>, done |-> FALSE,
     keeper_entry |-> <<>>, keeper_record |-> <<>>, attempts |-> <<>>,
     cancelled |-> FALSE]

\* DuplicateFinder.resolve_duplicates(resolution_method, duplicates_to_resolve,
\* keep_filter, callback); given is <<>> for duplicates_to_resolve=None
ResolveDuplicates(method, given) ==
    /\ obs.requests < MaxRequests
    /\ IF df.processing
       THEN /\ obs' = [obs EXCEPT !.requests = @ + 1, !.accepted = FALSE,
                                  !.busy = (dfw # EmptyMap)]
            /\ UNCHANGED <<df, dfw>>
       ELSE /\ df' = [df EXCEPT !.processing = TRUE]
            /\ dfw' = Put(dfw, FreshTid(dfw), DfWorker("resolve", method, given))
            /\ obs' = [obs EXCEPT !.requests = @ + 1, !.accepted = TRUE,
                                  !.busy = (dfw # EmptyMap)]
    /\ UNCHANGED <<db, fs, org, orgw, sc, scw, cfg>>

\* _resolve_thread up to the loop: duplicates_to_resolve and total_groups
ResolveStart(tid) ==
    /\ tid \in DOMAIN dfw /\ dfw[tid].kind = "resolve" /\ dfw[tid].pc = "start"
    /\ LET to_resolve == IF dfw[tid].given = <<>> THEN get_duplicates(df)
                         ELSE dfw[tid].given[1]
       IN /\ dfw' = [dfw EXCEPT ![tid].groups = to_resolve, ![tid].g = 1,
                                ![tid].processed_groups = 0, ![tid].pc = "group"]
          /\ obs' = [obs EXCEPT !.pass = [NoPass EXCEPT !.method = dfw[tid].method,
                                                       !.groups = to_resolve]]
    /\ UNCHANGED <<db, fs, df, org, orgw, sc, scw, cfg>>

\* _resolve_thread: the head of one iteration of `for hash_value, file_list in
\* duplicates_to_resolve.items()`, up to the choice of the file to keep
ResolveGroup(tid) ==
    /\ tid \in DOMAIN dfw /\ dfw[tid].kind = "resolve" /\ dfw[tid].pc = "group"
    /\ dfw[tid].g <= Len(dfw[tid].groups)
    /\ LET file_list == dfw[tid].groups[dfw[tid].g].files
           file_to_keep == keep_oldest(db, file_list)
       IN IF Len(file_list) <= 1
          THEN /\ dfw' = [dfw EXCEPT ![tid].g = @ + 1]
               /\ UNCHANGED obs
          ELSE IF df.cancel_requested
          THEN /\ dfw' = [dfw EXCEPT ![tid].pc = "final"]
               /\ obs' = [obs EXCEPT !.pass.cancelled = TRUE]
          ELSE /\ dfw' = [dfw EXCEPT ![tid].keeper = <<file_to_keep>>,
                                     ![tid].j = 1, ![tid].pc = "members"]
               /\ obs' = [obs EXCEPT
                             !.pass.keepers =
                                 Append(@, [g |-> dfw[tid].g, keeper |-> file_to_keep,
                                            content |-> ContentAt(fs, file_to_keep)]),
                             !.pass.keeper_entry = EntryAt(fs, file_to_keep),
                             !.pass.keeper_record = get_file(db, file_to_keep)]
    /\ UNCHANGED <<db, fs, df, org, orgw, sc, scw, cfg>>

\* _resolve_thread in which a member whose method fails ends the pass
ResolveMemberAbortsOnFailure(tid, done, linked) ==
    /\ tid \in DOMAIN dfw /\ dfw[tid].kind = "resolve" /\ dfw[tid].pc = "members"
    /\ dfw[tid].j <= Len(dfw[tid].groups[dfw[tid].g].files)
    /\ LET w == dfw[tid]
           file_path == w.groups[w.g].files[w.j]
           after == apply_method(w.method, fs, db, file_path, w.keeper[1], done, linked)
           failed == ~done \/ ~linked \/ file_path \notin DOMAIN fs
       IN IF SkipsKeeper(file_path, w.keeper[1])
          THEN /\ done /\ linked
               /\ dfw' = [dfw EXCEPT ![tid].j = @ + 1]
               /\ UNCHANGED <<db, fs, obs>>
          ELSE /\ linked \/ (done /\ w.method \in {"symlink", "hardlink"})
               /\ fs' = after.fs
               /\ db' = after.db
               /\ dfw' = IF failed THEN [dfw EXCEPT ![tid].pc = "final"]
                         ELSE [dfw EXCEPT ![tid].j = @ + 1]
               /\ obs' = [obs EXCEPT !.pass.attempts =
                             Append(@, [g |-> w.g, path |-> file_path, failed |-> failed])]
    /\ UNCHANGED <<df, org, orgw, sc, scw, cfg>>

\* _resolve_thread: one iteration of `for file_path in file_list`; done and
\* linked say whether the operating system lets the removal (move, rename) and
\* the creation of the link succeed
ResolveMember(tid, done, linked) ==
    /\ tid \in DOMAIN dfw /\ dfw[tid].kind = "resolve" /\ dfw[tid].pc = "members"
    /\ dfw[tid].j <= Len(dfw[tid].groups[dfw[tid].g].files)
    /\ LET w == dfw[tid]
           file_path == w.groups[w.g].files[w.j]
           after == apply_method(w.method, fs, db, file_path, w.keeper[1], done, linked)
           failed == ~done \/ ~linked \/ file_path \notin DOMAIN fs
       IN IF SkipsKeeper(file_path, w.keeper[1])
          THEN /\ done /\ linked
               /\ dfw' = [dfw EXCEPT ![tid].j = @ + 1]
               /\ UNCHANGED <<db, fs, obs>>
          ELSE /\ linked \/ (done /\ w.method \in {"symlink", "hardlink"})
               /\ fs' = after.fs
               /\ db' = after.db
               /\ dfw' = [dfw EXCEPT ![tid].j = @ + 1]
               /\ obs' = [obs EXCEPT !.pass.attempts =
                             Append(@, [g |-> w.g, path |-> file_path, failed |-> failed])]
    /\ UNCHANGED <<df, org, orgw, sc, scw, cfg>>

\* _resolve_thread: the end of one iteration over the groups: processed_groups
\* and the periodic callback
ResolveGroupEnd(tid) ==
    /\ tid \in DOMAIN dfw /\ dfw[tid].kind = "resolve" /\ dfw[tid].pc = "members"
    /\ dfw[tid].j > Len(dfw[tid].groups[dfw[tid].g].files)
    /\ dfw' = [dfw EXCEPT ![tid].processed_groups = @ + 1, ![tid].g = @ + 1,
                          ![tid].keeper = <<>>, ![tid].pc = "group"]
    /\ obs' = IF (dfw[tid].processed_groups + 1) % CallbackEvery = 0
              THEN [obs EXCEPT !.callbacks = @ + 1,
                               !.last_callback =
                                   [processed |-> dfw[tid].processed_groups + 1,
                                    total |-> Len(dfw[tid].groups),
                                    processing |-> df.processing]]
              ELSE obs
    /\ UNCHANGED <<db, fs, df, org, orgw, sc, scw, cfg>>

\* _resolve_thread after the loop: the final callback, which says processing False
ResolveFinal(tid) ==
    /\ tid \in DOMAIN dfw /\ dfw[tid].kind = "resolve"
    /\ \/ dfw[tid].pc = "final"
       \/ dfw[tid].pc = "group" /\ dfw[tid].g > Len(dfw[tid].groups)
    /\ dfw' = [dfw EXCEPT ![tid].pc = "finally"]
    /\ obs' = [obs EXCEPT !.callbacks = @ + 1,
                          !.last_callback = [processed |-> dfw[tid].processed_groups,
                                             total |-> Len(dfw[tid].groups),
                                             processing |-> FALSE],
                          !.pass.done = TRUE]
    /\ UNCHANGED <<db, fs, df, org, orgw, sc, scw, cfg>>

(***************************************************************************)
(* Specification SpecResolve: a scanned directory tree, a duplicate search *)
(* and a resolution pass                                                   *)
(***************************************************************************)
NameX == <<"x">>
NameZ == <<"z">>
OtherDir == <<"q">>

\* the directory trees: each a list of [path, content, created] in the order
\* os.walk yields the files
Trees ==
    {<<[path |-> [dir |-> RootDir, name |-> NameX], content |-> "c1"],
       [path |-> [dir |-> OtherDir, name |-> NameX], content |-> "c1"]>>,
     <<[path |-> [dir |-> RootDir, name |-> NameX], content |-> "c1"],
       [path |-> [dir |-> OtherDir, name |-> NameX], content |-> "c2"],
       [path |-> [dir |-> OtherDir, name |-> NameZ], content |-> "c2"]>>,
     <<[path |-> [dir |-> RootDir, name |-> NameX], content |-> "c1"],
       [path |-> [dir |-> RootDir, name |-> NameX \o DuplicateSuffix], content |-> "c1"]>>,
     <<[path |-> [dir |-> RootDir, name |-> NameX], content |-> "c1"],
       [path |-> [dir |-> Append(RootDir, DuplicatesFolder), name |-> NameX],
        content |-> "c1"]>>}

\* the filesystem of a tree in which the file at position old was created first
TreeFs(tree, old) ==
    [p \in {tree[i].path : i \in 1..Len(tree)} |->
        LET i == CHOOSE i \in 1..Len(tree) : tree[i].path = p
        IN FileEntry(i, 1, IF i = old THEN 1 ELSE 2, tree[i].content)]

\* FileScanner._scan_thread over the tree: db.add_file(path, _process_file(path))
\* for each file, in os.walk order
RECURSIVE ScanInto(_, _, _)
ScanInto(d, f, paths) ==
    IF paths = <<>> THEN d
    ELSE ScanInto(add_file(d, Head(paths), ProcessFile(f, Head(paths))), f, Tail(paths))

CompareMethods == {"name", "content", "both"}

ResolveInit ==
    /\ df = InitDF /\ dfw = EmptyMap
    /\ org = InitOrg /\ orgw = EmptyMap
    /\ sc = InitSc /\ scw = EmptyMap
    /\ \E tree \in Trees, method \in CompareMethods :
          \E old \in 1..Len(tree) :
             /\ fs = TreeFs(tree, old)
             /\ db = ScanInto(EmptyDb, fs, [i \in 1..Len(tree) |-> tree[i].path])
             /\ cfg = [DefaultConfig EXCEPT !.compare_method = method]
    /\ obs = [requests |-> 0, accepted |-> FALSE, busy |-> FALSE, callbacks |-> 0,
              last_callback |-> NoCallback, pass |-> NoPass]

\* the groups a caller passes as duplicates_to_resolve: None, or (as the GUI
\* does) the groups that get_duplicates reports
GivenGroups == {<<>>} \cup {<<get_duplicates(df)>> : x \in {y \in {1} : get_duplicates(df) # <<>>}}

ResolveNext ==
    \/ FindDuplicates
    \/ \E method \in Methods, given \in GivenGroups : ResolveDuplicates(method, given)
    \/ DfCancel
    \/ \E tid \in DOMAIN dfw : FindStart(tid)
    \/ \E tid \in DOMAIN dfw : FindGroup(tid)
    \/ \E tid \in DOMAIN dfw : FindHashFile(tid)
    \/ \E tid \in DOMAIN dfw : FindMerge(tid)
    \/ \E tid \in DOMAIN dfw : FindFinal(tid)
    \/ \E tid \in DOMAIN dfw : ResolveStart(tid)
    \/ \E tid \in DOMAIN dfw : ResolveGroup(tid)
    \/ \E tid \in DOMAIN dfw, done \in BOOLEAN, linked \in BOOLEAN :
          ResolveMember(tid, done, linked)
    \/ \E tid \in DOMAIN dfw : ResolveGroupEnd(tid)
    \/ \E tid \in DOMAIN dfw : ResolveFinal(tid)
    \/ \E tid \in DOMAIN dfw : DfFinally(tid)

SpecResolve == ResolveInit /\ [][ResolveNext]_vars

\* the members of the group at position g of the recorded pass
PassMembers(g) ==
    {obs.pass.groups[g].files[i] : i \in 1..Len(obs.pass.groups[g].files)}

\* the keepers the recorded pass chose for the group at position g
PassKeepers(g) ==
    {obs.pass.keepers[k].keeper :
        k \in {n \in 1..Len(obs.pass.keepers) : obs.pass.keepers[n].g = g}}

\* C3: when a pass with method delete has completed, of every group of 2 or
\* more members it was given exactly one member, the keeper, still exists on
\* the filesystem and in the Catalog, and every other member is absent from both.
C3_DeleteLeavesExactlyKeeper ==
    (obs.pass.done /\ obs.pass.method = "delete") =>
        \A g \in 1..Len(obs.pass.groups) :
            Len(obs.pass.groups[g].files) >= 2 =>
                \E keeper \in PassMembers(g) :
                    /\ PassKeepers(g) \subseteq {keeper}
                    /\ keeper \in DOMAIN fs /\ keeper \in DOMAIN db.files
                    /\ \A m \in PassMembers(g) \ {keeper} :
                          m \notin DOMAIN fs /\ m \notin DOMAIN db.files

\* C4: when a pass with method symlink or hardlink has completed, every path
\* that was a member of a group the pass resolved leads to the content the
\* group's keeper had: it is the keeper, or a link that resolves to it.
C4_LinksLeadToKeeperContent ==
    (obs.pass.done /\ obs.pass.method \in {"symlink", "hardlink"}) =>
        \A k \in 1..Len(obs.pass.keepers) :
            \A m \in PassMembers(obs.pass.keepers[k].g) :
                /\ obs.pass.keepers[k].content # <<>>
                /\ ContentAt(fs, m) = obs.pass.keepers[k].content

\* C5: while a pass works on a group, whatever the method, the file chosen as
\* the group's keeper is not deleted, moved, renamed or replaced by a link, and
\* its Catalog record is unchanged: the keeper's directory entry and record are
\* those it had when it was chosen.
C5_KeeperUntouchedByOwnGroup ==
    \A tid \in DOMAIN dfw :
        (dfw[tid].kind = "resolve" /\ dfw[tid].pc = "members") =>
            /\ EntryAt(fs, dfw[tid].keeper[1]) = obs.pass.keeper_entry
            /\ get_file(db, dfw[tid].keeper[1]) = obs.pass.keeper_record

\* C5 witness: a pass has applied its method to every member of a group, a
\* member other than the keeper has left its path, and the keeper is there
C5_Witness ==
    \E tid \in DOMAIN dfw :
        /\ dfw[tid].kind = "resolve" /\ dfw[tid].pc = "members"
        /\ dfw[tid].j > Len(dfw[tid].groups[dfw[tid].g].files)
        /\ obs.pass.keeper_entry # <<>>
        /\ obs.pass.keeper_record # <<>>
        /\ \E i \in 1..Len(dfw[tid].groups[dfw[tid].g].files) :
              /\ dfw[tid].groups[dfw[tid].g].files[i] # dfw[tid].keeper[1]
              /\ dfw[tid].groups[dfw[tid].g].files[i] \notin DOMAIN fs

(***************************************************************************)
(* os.walk and the pattern extraction of the FileOrganizer                 *)
(***************************************************************************)
\* the members of a set in the order the operating system lists them
RECURSIVE Listing(_)
Listing(S) ==
    IF S = {} THEN <<>>
    ELSE <<CHOOSE x \in S : TRUE>> \o Listing(S \ {CHOOSE x \in S : TRUE})

IsPrefix(d, e) == Len(d) <= Len(e) /\ SubSeq(e, 1, Len(d)) = d

\* os.scandir(dir): the files and the subdirectories of a directory
FilesIn(f, dir) == Listing({p \in DOMAIN f : p.dir = dir})
SubDirs(f, dir) ==
    Listing({SubSeq(p.dir, 1, Len(dir) + 1) :
                p \in {q \in DOMAIN f : IsPrefix(dir, q.dir) /\ Len(q.dir) > Len(dir)}})

\* sum(1 for _ in self._enumerate_files(directory))
CountFiles(f, directory) == Cardinality({p \in DOMAIN f : IsPrefix(directory, p.dir)})

\* os.walk, top down and lazy: a walk is the files left of the directory being
\* listed and the directories still to list; a directory is listed when the
\* walk reaches it
RECURSIVE WalkAdvance(_, _)
WalkAdvance(f, walk) ==
    IF walk.files # <<>> \/ walk.pending = <<>> THEN walk
    ELSE WalkAdvance(f, [files |-> FilesIn(f, Head(walk.pending)),
                         pending |-> SubDirs(f, Head(walk.pending)) \o Tail(walk.pending)])

IsLetter(c) == IsIn(c, Lowers) \/ IsIn(c, Uppers)

\* the length of the longest prefix (suffix) of s made of characters that Is accepts
LeadingLetters(s) ==
    CHOOSE k \in 0..Len(s) :
        /\ \A i \in 1..k : IsLetter(s[i])
        /\ k = Len(s) \/ ~IsLetter(s[k + 1])
TrailingDigits(s) ==
    CHOOSE k \in 0..Len(s) :
        /\ \A i \in (Len(s) - k + 1)..Len(s) : IsIn(s[i], Digits)
        /\ k = Len(s) \/ ~IsIn(s[Len(s) - k], Digits)
\* the start of the run of non-digits that ends at position last
NonDigitRunStart(s, last) ==
    CHOOSE b \in 1..last :
        /\ \A i \in b..last : ~IsIn(s[i], Digits)
        /\ b = 1 \/ IsIn(s[b - 1], Digits)

\* FileOrganizer._extract_name_pattern: <<>> for None
extract_name_pattern(filename) ==
    LET name == SplitBase(filename)
    IN IF /\ Len(name) >= 10
          /\ \A i \in 1..10 : IF i \in {5, 8} THEN name[i] = "-" ELSE IsIn(name[i], Digits)
       THEN <<"date_prefix">>
       ELSE IF TrailingDigits(name) > 0 /\ TrailingDigits(name) < Len(name)
       THEN <<"numbered_">> \o SubSeq(name, NonDigitRunStart(name, Len(name) - TrailingDigits(name)),
                                      Len(name) - TrailingDigits(name))
       ELSE IF /\ LeadingLetters(name) > 0 /\ LeadingLetters(name) < Len(name)
               /\ name[LeadingLetters(name) + 1] = "_"
       THEN <<"prefix_">> \o SubSeq(name, 1, LeadingLetters(name))
       ELSE <<>>

\* the characters of the directory names that occur
DirNames ==
    {<<"r">>, <<"q">>, <<"D","u","p","l","i","c","a","t","e","s">>,
     <<"I","m","a","g","e","s">>, <<"D","o","c","u","m","e","n","t","s">>,
     <<"C","o","d","e">>, <<"M","i","s","c">>, <<"1","9","7","0">>, <<"0","1">>}
CharsOf(segment) == CHOOSE c \in DirNames : StrOf(c) = segment

\* FileOrganizer._extract_dir_pattern: <<>> for None
extract_dir_pattern(dir) ==
    LET last_part == CharsOf(dir[Len(dir)])
    IN IF \E category \in DOMAIN FILE_CATEGORIES :
             Lower(last_part) = Lower(CharsOf(category))
       THEN <<"category_based">>
       ELSE IF /\ Len(last_part) \in {4, 7}
               /\ \A i \in 1..Len(last_part) :
                     IF i = 5 THEN last_part[i] \in {"-", "_", "/"} ELSE IsIn(last_part[i], Digits)
       THEN <<"date_based">>
       ELSE IF Len(last_part) = 1 /\ IsLetter(last_part[1])
       THEN <<"alphabetical">>
       ELSE <<>>

\* defaultdict(int): the number of times each key occurs in a list
RECURSIVE CountKeys(_, _)
CountKeys(keys, acc) ==
    IF keys = <<>> THEN acc
    ELSE CountKeys(Tail(keys),
                   Put(acc, Head(keys),
                       (IF Head(keys) \in DOMAIN acc THEN acc[Head(keys)] ELSE 0) + 1))

\* FileDatabase.add_pattern for every pattern counted
RECURSIVE AddPatterns(_, _, _)
AddPatterns(patterns, counts, keys) ==
    IF keys = {} THEN patterns
    ELSE LET k == CHOOSE x \in keys : TRUE
         IN AddPatterns(Put(patterns, k,
                            (IF k \in DOMAIN patterns THEN patterns[k] ELSE 0) + counts[k]),
                        counts, keys \ {k})

(***************************************************************************)
(* FileOrganizer.analyze_patterns, suggest_organization and auto_organize  *)
(***************************************************************************)
\* the callback period of _analyze_thread
AnalyzeCallbackEvery == 100

\* the part analyze_patterns, suggest_organization and auto_organize share: the
\* busy check, the reset of the counters and the start of the thread
OrgRequest(worker) ==
    /\ obs.requests < MaxRequests
    /\ IF org.processing
       THEN /\ obs' = [obs EXCEPT !.requests = @ + 1, !.accepted = FALSE,
                                  !.busy = (orgw # EmptyMap)]
            /\ UNCHANGED <<org, orgw>>
       ELSE /\ org' = [org EXCEPT !.processing = TRUE, !.cancel_requested = FALSE,
                                  !.processed_files = 0, !.total_files = 0,
                                  !.current_file = <<>>]
            /\ orgw' = Put(orgw, FreshTid(orgw), worker)
            /\ obs' = [obs EXCEPT !.requests = @ + 1, !.accepted = TRUE,
                                  !.busy = (orgw # EmptyMap)]
    /\ UNCHANGED <<db, fs, df, dfw, sc, scw, cfg>>

\* FileOrganizer.analyze_patterns(callback)
AnalyzePatterns ==
    OrgRequest([kind |-> "analyze", pc |-> "start", i |-> 1, size |-> 0,
                naming_patterns |-> <<>>])

\* FileOrganizer.suggest_organization(directory, callback)
SuggestOrganization(directory) ==
    OrgRequest([kind |-> "suggest", pc |-> "start", directory |-> directory])

\* FileOrganizer.auto_organize(directory, rules, callback)
AutoOrganize(directory, rules) ==
    OrgRequest([kind |-> "organize", pc |-> "start", directory |-> directory,
                rules |-> rules, walk |-> [files |-> <<>>, pending |-> <<>>],
                moved_files |-> <<>>])

\* _analyze_thread up to the first loop: all_files is the catalog's own dictionary
AnalyzeStart(tid) ==
    /\ tid \in DOMAIN orgw /\ orgw[tid].kind = "analyze" /\ orgw[tid].pc = "start"
    /\ org' = [org EXCEPT !.total_files = Len(get_all_files(db))]
    /\ orgw' = [orgw EXCEPT ![tid].pc = "loop", ![tid].size = Len(get_all_files(db))]
    /\ UNCHANGED <<db, fs, df, dfw, sc, scw, cfg, obs>>

\* _analyze_thread: one iteration of `for file_path, metadata in all_files.items()`.
\* The iterator raises RuntimeError when the dictionary has changed size, which
\* ends the thread in its `except` and `finally` clauses.
AnalyzeFile(tid) ==
    /\ tid \in DOMAIN orgw /\ orgw[tid].kind = "analyze" /\ orgw[tid].pc = "loop"
    /\ LET w == orgw[tid]
           all_files == get_all_files(db)
       IN IF Len(all_files) # w.size
          THEN /\ orgw' = [orgw EXCEPT ![tid].pc = "finally"]
               /\ UNCHANGED <<org, obs>>
          ELSE IF w.i > Len(all_files) \/ org.cancel_requested
          THEN /\ orgw' = [orgw EXCEPT ![tid].pc = "save"]
               /\ UNCHANGED <<org, obs>>
          ELSE LET pattern == extract_name_pattern(db.files[all_files[w.i]].name)
               IN /\ orgw' = [orgw EXCEPT ![tid].i = @ + 1,
                                          ![tid].naming_patterns =
                                              IF pattern # <<>> THEN Append(@, pattern) ELSE @]
                  /\ org' = [org EXCEPT !.current_file = <<all_files[w.i]>>,
                                        !.processed_files = @ + 1]
                  /\ obs' = IF (org.processed_files + 1) % AnalyzeCallbackEvery = 0
                            THEN [obs EXCEPT !.callbacks = @ + 1,
                                             !.last_callback = OrgProgress(org')]
                            ELSE obs
    /\ UNCHANGED <<db, fs, df, dfw, sc, scw, cfg>>

\* the directory patterns of the cataloged files, one for each file that has one
RECURSIVE DirPatterns(_)
DirPatterns(paths) ==
    IF paths = <<>> THEN <<>>
    ELSE (IF extract_dir_pattern(Head(paths).dir) # <<>>
          THEN <<extract_dir_pattern(Head(paths).dir)>> ELSE <<>>)
         \o DirPatterns(Tail(paths))

\* _analyze_thread after the first loop: the directory patterns, db.add_pattern
\* for every pattern, db.save() and the final callback
AnalyzeSave(tid) ==
    /\ tid \in DOMAIN orgw /\ orgw[tid].kind = "analyze" /\ orgw[tid].pc = "save"
    /\ \E naming \in {CountKeys(orgw[tid].naming_patterns, EmptyMap)},
          dirs \in {CountKeys(DirPatterns(get_all_files(db)), EmptyMap)} :
          db' = [db EXCEPT !.patterns.naming = AddPatterns(@, naming, DOMAIN naming),
                           !.patterns.organization = AddPatterns(@, dirs, DOMAIN dirs)]
    /\ orgw' = [orgw EXCEPT ![tid].pc = "finally"]
    /\ obs' = [obs EXCEPT !.callbacks = @ + 1, !.last_callback = OrgProgress(org)]
    /\ UNCHANGED <<fs, df, dfw, org, sc, scw, cfg>>

\* _suggest_thread: the count of the files; get_organization_suggestions reads
\* the directory and the catalog and changes neither; the final callback
SuggestCount(tid) ==
    /\ tid \in DOMAIN orgw /\ orgw[tid].kind = "suggest" /\ orgw[tid].pc = "start"
    /\ org' = [org EXCEPT !.total_files = CountFiles(fs, orgw[tid].directory)]
    /\ orgw' = [orgw EXCEPT ![tid].pc = "finally"]
    /\ obs' = [obs EXCEPT !.callbacks = @ + 1,
                          !.last_callback =
                              [processed |-> CountFiles(fs, orgw[tid].directory),
                               total |-> CountFiles(fs, orgw[tid].directory),
                               processing |-> FALSE]]
    /\ UNCHANGED <<db, fs, df, dfw, sc, scw, cfg>>

\* _organize_thread up to the loop: the count of the files and the default rules
OrganizeStart(tid) ==
    /\ tid \in DOMAIN orgw /\ orgw[tid].kind = "organize" /\ orgw[tid].pc = "start"
    /\ org' = [org EXCEPT !.total_files = CountFiles(fs, orgw[tid].directory)]
    /\ orgw' = [orgw EXCEPT ![tid].pc = "loop",
                            ![tid].rules = [given |-> TRUE, list |-> EffectiveRules(@)],
                            ![tid].walk = [files |-> <<>>,
                                           pending |-> <<orgw[tid].directory>>]]
    /\ UNCHANGED <<db, fs, df, dfw, sc, scw, cfg, obs>>

\* a catalog update after a move that leaves the record at the old path
OrganizeInDbKeepsOldRecord(d, file_path, new_path, metadata) ==
    add_history_entry(add_file(d, new_path, [metadata EXCEPT !.path = new_path.dir]),
                      "move", [original_path |-> file_path, new_path |-> new_path])

\* the catalog after _organize_thread has moved a file: remove_file, the record
\* re-added under the new path with "path" set to the destination, the history
OrganizeInDb(d, file_path, new_path, metadata) ==
    add_history_entry(add_file(remove_file(d, file_path), new_path,
                               [metadata EXCEPT !.path = new_path.dir]),
                      "move", [original_path |-> file_path, new_path |-> new_path])

\* the path _organize_thread moves a file to in its destination directory
organize_target(f, file_path, destination) ==
    IF PathExists(f, [dir |-> destination, name |-> file_path.name])
    THEN UniquePath(f, destination, SplitBase(file_path.name), <<"_">>,
                    SplitExt(file_path.name), 1)
    ELSE [dir |-> destination, name |-> file_path.name]

\* _organize_thread: one iteration of `for file_path in self._enumerate_files(directory)`;
\* moved is whether os.makedirs and shutil.move succeed when they are called
OrganizeFile(tid, moved) ==
    /\ tid \in DOMAIN orgw /\ orgw[tid].kind = "organize" /\ orgw[tid].pc = "loop"
    /\ LET w == orgw[tid]
           walk == WalkAdvance(fs, w.walk)
       IN IF walk.files = <<>> \/ org.cancel_requested
          THEN /\ orgw' = [orgw EXCEPT ![tid].pc = "final", ![tid].walk = walk]
               /\ moved
               /\ UNCHANGED <<db, fs, org, obs>>
          ELSE LET file_path == Head(walk.files)
                   scanned == IF get_file(db, file_path) = <<>> /\ StatPath(fs, file_path) # <<>>
                              THEN add_file(db, file_path, ProcessFile(fs, file_path))
                              ELSE db
                   metadata == get_file(scanned, file_path)
                   destination == IF metadata = <<>> THEN NoDestination
                                  ELSE apply_rules(file_path, metadata[1], w.rules.list)
                   moves == /\ destination # NoDestination
                            /\ destination # file_path.dir
                   new_path == organize_target(fs, file_path, destination)
               IN /\ IF moves /\ moved /\ file_path \in DOMAIN fs
                     THEN /\ fs' = MoveEntry(fs, file_path, new_path)
                          /\ db' = OrganizeInDb(scanned, file_path, new_path, metadata[1])
                          /\ orgw' = [orgw EXCEPT
                                         ![tid].walk = [walk EXCEPT !.files = Tail(@)],
                                         ![tid].moved_files =
                                             Append(@, [original_path |-> file_path,
                                                        new_path |-> new_path])]
                     ELSE /\ fs' = fs
                          /\ db' = scanned
                          /\ (moves \/ moved)
                          /\ orgw' = [orgw EXCEPT
                                         ![tid].walk = [walk EXCEPT !.files = Tail(@)]]
                  /\ org' = [org EXCEPT !.current_file = <<file_path>>,
                                        !.processed_files = @ + 1]
                  /\ obs' = IF /\ (org.processed_files + 1) % CallbackEvery = 0
                               /\ org.total_files # 0
                            THEN [obs EXCEPT !.callbacks = @ + 1,
                                             !.last_callback = OrgProgress(org')]
                            ELSE obs
    /\ UNCHANGED <<df, dfw, sc, scw, cfg>>

\* _organize_thread after the loop: db.save() and the final callback, which
\* reports "processing": False
OrganizeFinal(tid) ==
    /\ tid \in DOMAIN orgw /\ orgw[tid].kind = "organize" /\ orgw[tid].pc = "final"
    /\ orgw' = [orgw EXCEPT ![tid].pc = "finally"]
    /\ obs' = [obs EXCEPT !.callbacks = @ + 1,
                          !.last_callback = [processed |-> org.processed_files,
                                             total |-> org.total_files,
                                             processing |-> FALSE]]
    /\ UNCHANGED <<db, fs, df, dfw, org, sc, scw, cfg>>

(***************************************************************************)
(* Specification SpecBusy: one DuplicateFinder and one FileOrganizer on a  *)
(* scanned directory tree; the requests come from one caller, one at a     *)
(* time, and interleave with the steps of the workers                      *)
(***************************************************************************)
BusyInit ==
    /\ df = InitDF /\ dfw = EmptyMap
    /\ org = InitOrg /\ orgw = EmptyMap
    /\ sc = InitSc /\ scw = EmptyMap
    /\ \E tree \in {t \in Trees : \A i \in 1..Len(t) : t[i].path.dir = RootDir} :
          /\ fs = TreeFs(tree, 1)
          /\ db = ScanInto(EmptyDb, fs, [i \in 1..Len(tree) |-> tree[i].path])
    /\ cfg = DefaultConfig
    /\ obs = [requests |-> 0, accepted |-> FALSE, busy |-> FALSE, callbacks |-> 0,
              last_callback |-> NoCallback, pass |-> NoPass]


BusyNext ==
    \/ FindDuplicates
    \/ \E method \in Methods, given \in GivenGroups : ResolveDuplicates(method, given)
    \/ DfCancel
    \/ \E tid \in DOMAIN dfw : FindStart(tid)
    \/ \E tid \in DOMAIN dfw : FindGroup(tid)
    \/ \E tid \in DOMAIN dfw : FindHashFile(tid)
    \/ \E tid \in DOMAIN dfw : FindMerge(tid)
    \/ \E tid \in DOMAIN dfw : FindFinal(tid)
    \/ \E tid \in DOMAIN dfw : ResolveStart(tid)
    \/ \E tid \in DOMAIN dfw : ResolveGroup(tid)
    \/ \E tid \in DOMAIN dfw, done \in BOOLEAN, linked \in BOOLEAN :
          ResolveMember(tid, done, linked)
    \/ \E tid \in DOMAIN dfw : ResolveGroupEnd(tid)
    \/ \E tid \in DOMAIN dfw : ResolveFinal(tid)
    \/ \E tid \in DOMAIN dfw : DfFinally(tid)
    \/ AnalyzePatterns
    \/ SuggestOrganization(RootDir)
    \/ AutoOrganize(RootDir, [given |-> FALSE, list |-> <<>>])
    \/ \E path \in DOMAIN db.files : AutoRename(<<path>>)
    \/ OrgCancel
    \/ \E tid \in DOMAIN orgw : AnalyzeStart(tid)
    \/ \E tid \in DOMAIN orgw : AnalyzeFile(tid)
    \/ \E tid \in DOMAIN orgw : AnalyzeSave(tid)
    \/ \E tid \in DOMAIN orgw : SuggestCount(tid)
    \/ \E tid \in DOMAIN orgw : OrganizeStart(tid)
    \/ \E tid \in DOMAIN orgw, moved \in BOOLEAN : OrganizeFile(tid, moved)
    \/ \E tid \in DOMAIN orgw : OrganizeFinal(tid)
    \/ \E tid \in DOMAIN orgw : RenameGenerate(tid)
    \/ \E tid \in DOMAIN orgw, renamed \in BOOLEAN : RenameFile(tid, renamed)
    \/ \E tid \in DOMAIN orgw : RenameFinal(tid)
    \/ \E tid \in DOMAIN orgw : OrgFinally(tid)

SpecBusy == BusyInit /\ [][BusyNext]_vars

\* C6: with requests issued one at a time and interleaved with the workers'
\* steps, a DuplicateFinder and a FileOrganizer each have at most one background
\* worker at any moment, and a request made while the instance's worker is
\* running returns False.
C6_AtMostOneWorker ==
    /\ Cardinality(DOMAIN dfw) <= 1
    /\ Cardinality(DOMAIN orgw) <= 1
    /\ (obs.busy => ~obs.accepted)

\* a request has been made while a worker was running, and was rejected
C6_Witness ==
    /\ obs.requests > 0 /\ obs.busy /\ ~obs.accepted
    /\ dfw # EmptyMap \/ orgw # EmptyMap

(***************************************************************************)
(* FileScanner.start_scan, stop_scan and _scan_thread                      *)
(***************************************************************************)
\* FileScanner._enumerate_files yields a file that is not hidden and whose
\* os.path.getsize succeeds (ignore_hidden_files is on; the directories are
\* neither hidden, excluded nor system directories; no file exceeds
\* max_file_size_mb)
ScanYields(f, path) == ~StartsWith(path.name, <<".">>) /\ StatPath(f, path) # <<>>

\* FileScanner._enumerate_files: the walk moved on to the next file it yields
RECURSIVE ScanWalk(_, _)
ScanWalk(f, walk) ==
    LET next == WalkAdvance(f, walk)
    IN IF next.files = <<>> \/ ScanYields(f, Head(next.files)) THEN next
       ELSE ScanWalk(f, [next EXCEPT !.files = Tail(@)])

\* FileScanner.get_progress
ScProgress(s) ==
    [processed |-> s.processed_files, total |-> s.total_files, scanning |-> s.scanning]

\* the number of start_scan and stop_scan calls
MaxScanCalls == 3

\* what is recorded of one scan that start_scan has started: its directory, the
\* files whose loop body has run, those of them for which a record was added,
\* whether the thread has found cancel_scan set with files left to walk, and
\* the files processed up to then
NoScan ==
    [directory |-> <<>>, processed |-> <<>>, added |-> <<>>, observed |-> FALSE,
     at_cancel |-> <<>>]

\* FileScanner.start_scan(directory, callback); the thread carries the number of
\* the request that started it
StartScan(directory) ==
    /\ obs.requests < MaxScanCalls
    /\ obs.caller = "idle"
    /\ IF sc.scanning
       THEN /\ obs' = [obs EXCEPT !.requests = @ + 1, !.accepted = FALSE,
                                  !.busy = (scw # EmptyMap)]
            /\ UNCHANGED <<sc, scw>>
       ELSE /\ sc' = [sc EXCEPT !.scanning = TRUE, !.cancel_scan = FALSE,
                                !.processed_files = 0, !.total_files = 0,
                                !.current_file = <<>>, !.scan_queue = <<>>,
                                !.scan_results = <<>>,
                                !.scan_thread = <<FreshTid(scw)>>]
            /\ scw' = Put(scw, FreshTid(scw),
                          [pc |-> "start", directory |-> directory,
                           walk |-> [files |-> <<>>, pending |-> <<>>],
                           scan |-> obs.requests + 1])
            /\ obs' = [obs EXCEPT !.requests = @ + 1, !.accepted = TRUE,
                                  !.busy = (scw # EmptyMap),
                                  !.scans = Put(@, obs.requests + 1,
                                                [NoScan EXCEPT !.directory = directory])]
    /\ UNCHANGED <<db, fs, df, dfw, org, orgw, cfg>>

\* FileScanner.stop_scan up to scan_thread.join(1.0); without a scan_thread the
\* call is complete
StopScan ==
    /\ obs.caller = "idle"
    /\ obs.requests < MaxScanCalls
    /\ IF sc.scan_thread # <<>>
       THEN /\ sc' = [sc EXCEPT !.cancel_scan = TRUE]
            /\ obs' = [obs EXCEPT !.caller = "joining", !.requests = @ + 1]
       ELSE /\ sc' = [sc EXCEPT !.cancel_scan = TRUE, !.scanning = FALSE]
            /\ obs' = [obs EXCEPT !.requests = @ + 1]
    /\ UNCHANGED <<db, fs, df, dfw, org, orgw, scw, cfg>>

\* FileScanner.stop_scan from the return of scan_thread.join(1.0): the thread
\* has ended, or (timeout) the second has passed while it still runs
StopScanJoined(timeout) ==
    /\ obs.caller = "joining"
    /\ timeout = (sc.scan_thread[1] \in DOMAIN scw)
    /\ sc' = [sc EXCEPT !.scan_thread = <<>>, !.scanning = FALSE]
    /\ obs' = [obs EXCEPT !.caller = "idle"]
    /\ UNCHANGED <<db, fs, df, dfw, org, orgw, scw, cfg>>

\* _scan_thread up to the loop: the count of the files
ScanCount(tid) ==
    /\ tid \in DOMAIN scw /\ scw[tid].pc = "start"
    /\ sc' = [sc EXCEPT !.total_files =
                 Cardinality({p \in DOMAIN fs : /\ IsPrefix(scw[tid].directory, p.dir)
                                                /\ ScanYields(fs, p)})]
    /\ scw' = [scw EXCEPT ![tid].pc = "loop",
                          ![tid].walk = [files |-> <<>>,
                                         pending |-> <<scw[tid].directory>>]]
    /\ UNCHANGED <<db, fs, df, dfw, org, orgw, cfg, obs>>

HashAlgorithms == {"md5", "sha1", "sha256"}

\* FileScanner._calculate_file_hash: the digest of the content under the
\* algorithm that Duplicates.hash_algorithm names when the file is hashed.  A
\* sha256 digest (the default, and the fallback for any other value) is written
\* as the name of the content, an md5 or sha1 digest with its algorithm in front.
calculate_file_hash(hash_algorithm, content) ==
    IF hash_algorithm = "md5" THEN "md5:" \o content
    ELSE IF hash_algorithm = "sha1" THEN "sha1:" \o content
    ELSE content

\* FileScanner._process_file as _scan_thread calls it: the hash is computed
\* under the configuration of the moment
ScanProcessFile(f, c, path) ==
    [ProcessFile(f, path) EXCEPT
        !.hash = calculate_file_hash(c.hash_algorithm, StatPath(f, path)[1].content)]

\* _scan_thread: one iteration of `for file_path in self._enumerate_files(directory)`;
\* read is whether _process_file returns a record (it returns None on
\* PermissionError)
ScanFile(tid, read) ==
    /\ tid \in DOMAIN scw /\ scw[tid].pc = "loop"
    /\ \E walk \in {ScanWalk(fs, scw[tid].walk)} :
          IF walk.files = <<>> \/ sc.cancel_scan
          THEN /\ scw' = [scw EXCEPT ![tid].pc = "final", ![tid].walk = walk]
               /\ read
               /\ obs' = IF walk.files # <<>>
                         THEN [obs EXCEPT !.scans[scw[tid].scan].observed = TRUE,
                                          !.scans[scw[tid].scan].at_cancel =
                                              obs.scans[scw[tid].scan].processed]
                         ELSE obs
               /\ UNCHANGED <<db, sc>>
          ELSE LET file_path == Head(walk.files)
               IN /\ scw' = [scw EXCEPT ![tid].walk = [walk EXCEPT !.files = Tail(@)]]
                  /\ db' = IF read
                           THEN add_file(db, file_path, ScanProcessFile(fs, cfg, file_path))
                           ELSE db
                  /\ sc' = [sc EXCEPT !.current_file = <<file_path>>,
                                      !.scan_queue = Append(@, file_path),
                                      !.scan_results = IF read THEN Append(@, file_path) ELSE @,
                                      !.processed_files = @ + 1]
                  /\ obs' = [obs EXCEPT !.callbacks = @ + 1,
                                        !.last_callback = ScProgress(sc'),
                                        !.scans[scw[tid].scan].processed =
                                            Append(@, file_path),
                                        !.scans[scw[tid].scan].added =
                                            IF read THEN Append(@, file_path) ELSE @]
    /\ UNCHANGED <<fs, df, dfw, org, orgw, cfg>>

\* remove_file for each of the paths
RECURSIVE RemoveFiles(_, _)
RemoveFiles(d, paths) ==
    IF paths = <<>> THEN d ELSE RemoveFiles(remove_file(d, Head(paths)), Tail(paths))

\* _scan_thread after the loop, if a cancelled scan took its records back
ScanFinalRollsBack(tid) ==
    /\ tid \in DOMAIN scw /\ scw[tid].pc = "final"
    /\ scw' = [scw EXCEPT ![tid].pc = "finally"]
    /\ db' = IF obs.scans[scw[tid].scan].observed
             THEN RemoveFiles(db, obs.scans[scw[tid].scan].added)
             ELSE db
    /\ obs' = [obs EXCEPT !.callbacks = @ + 1, !.last_callback = ScProgress(sc)]
    /\ UNCHANGED <<fs, df, dfw, org, orgw, sc, cfg>>

\* _scan_thread after the loop: db.save() and the final callback
ScanFinal(tid) ==
    /\ tid \in DOMAIN scw /\ scw[tid].pc = "final"
    /\ scw' = [scw EXCEPT ![tid].pc = "finally"]
    /\ obs' = [obs EXCEPT !.callbacks = @ + 1, !.last_callback = ScProgress(sc)]
    /\ UNCHANGED <<db, fs, df, dfw, org, orgw, sc, cfg>>

\* the `finally` clause of _scan_thread: self.scanning = False
ScanFinally(tid) ==
    /\ tid \in DOMAIN scw /\ scw[tid].pc = "finally"
    /\ sc' = [sc EXCEPT !.scanning = FALSE]
    /\ scw' = Del(scw, tid)
    /\ UNCHANGED <<db, fs, df, dfw, org, orgw, cfg, obs>>

(***************************************************************************)
(* Specification SpecScan: one FileScanner on a directory tree; start_scan *)
(* and stop_scan come from one caller and interleave with the steps of the *)
(* scan threads                                                            *)
(***************************************************************************)
ScanInit ==
    /\ db = EmptyDb
    /\ df = InitDF /\ dfw = EmptyMap
    /\ org = InitOrg /\ orgw = EmptyMap
    /\ sc = InitSc /\ scw = EmptyMap
    /\ \E tree \in {t \in Trees : \A i \in 1..Len(t) : IsPrefix(RootDir, t[i].path.dir)} :
          fs = TreeFs(tree, 1)
    /\ cfg = DefaultConfig
    /\ obs = [requests |-> 0, accepted |-> FALSE, busy |-> FALSE, callbacks |-> 0,
              last_callback |-> [processed |-> 0, total |-> 0, scanning |-> FALSE],
              caller |-> "idle", scans |-> EmptyMap]

ScanNext ==
    \/ \E directory \in {RootDir, OtherDir} : StartScan(directory)
    \/ StopScan
    \/ \E timeout \in BOOLEAN : StopScanJoined(timeout)
    \/ \E tid \in DOMAIN scw : ScanCount(tid)
    \/ \E tid \in DOMAIN scw, read \in BOOLEAN : ScanFile(tid, read)
    \/ \E tid \in DOMAIN scw : ScanFinal(tid)
    \/ \E tid \in DOMAIN scw : ScanFinally(tid)

SpecScan == ScanInit /\ [][ScanNext]_vars

\* C7: under any sequence of start_scan and stop_scan calls interleaved with the
\* steps of the scan threads, a FileScanner has at most one scan thread running
\* at any moment, and a start_scan issued while a scan thread is running
\* returns False.
C7_AtMostOneScanWorker ==
    /\ Cardinality(DOMAIN scw) <= 1
    /\ (obs.busy => ~obs.accepted)

\* the elements of a sequence
Range(q) == {q[i] : i \in 1..Len(q)}

\* C11: once the thread of a scan has found cancel_scan set with files left to
\* walk, the scan processes no further file, every file it added a record for
\* still has the record _process_file built, and the Catalog holds exactly the
\* files the scans added records for.
C11_CancelledScanKeepsProcessed ==
    /\ \A k \in DOMAIN obs.scans :
          obs.scans[k].observed =>
             /\ obs.scans[k].processed = obs.scans[k].at_cancel
             /\ Range(obs.scans[k].added) \subseteq Range(obs.scans[k].processed)
             /\ \A p \in Range(obs.scans[k].added) :
                   get_file(db, p) = <<ProcessFile(fs, p)>>
    /\ DOMAIN db.files = UNION {Range(obs.scans[k].added) : k \in DOMAIN obs.scans}

\* a scan was cancelled after it had added a record and before its last file,
\* and its thread has ended
C11_Witness ==
    \E k \in DOMAIN obs.scans :
        /\ obs.scans[k].observed
        /\ obs.scans[k].added # <<>>
        /\ \A tid \in DOMAIN scw : scw[tid].scan # k

\* C12: the last progress callback a long-running operation delivers reports
\* the operation as finished: once the scan threads have ended, the last
\* callback delivered has scanning false.
C12_LastCallbackReportsFinished ==
    (scw = EmptyMap /\ obs.callbacks > 0) => ~obs.last_callback.scanning

\* os.path.isdir: a directory exists when a file lies in it or below it
DirExists(f, dir) == \E p \in DOMAIN f : IsPrefix(dir, p.dir)

\* C13: a scan requested on a root directory that does not exist does not
\* start (and so delivers no progress callback): every scan that start_scan
\* has started is a scan of an existing directory.
C13_MissingRootIsFatal ==
    \A k \in DOMAIN obs.scans : DirExists(fs, obs.scans[k].directory)

(***************************************************************************)
(* Specification SpecAtomic: add_file and remove_file statement by         *)
(* statement.  FileDatabase has no lock, so another thread can read the    *)
(* Catalog between any two statements of a call; the state between two     *)
(* statements is what such a reader sees.  Files are added under paths the *)
(* Catalog does not hold, so that the statistics match the records between *)
(* the calls.                                                              *)
(***************************************************************************)
AtomicInit ==
    /\ db = EmptyDb
    /\ fs = EmptyMap
    /\ df = InitDF /\ dfw = EmptyMap
    /\ org = InitOrg /\ orgw = EmptyMap
    /\ sc = InitSc /\ scw = EmptyMap
    /\ cfg = DefaultConfig
    /\ obs = [nops |-> 0]

\* add_file, its first statement: self.data["files"][file_path_str] = metadata
AddFileBegin(path, size) ==
    /\ obs.nops < MaxOps
    /\ scw = EmptyMap
    /\ path \notin DOMAIN db.files
    /\ db' = [db EXCEPT !.files = Put(@, path, Metadata(path, size, 1, "h")),
                        !.file_order = Append(@, path)]
    /\ scw' = (1 :> [op |-> "add", pc |-> "count", path |-> path,
                     metadata |-> Metadata(path, size, 1, "h")])
    /\ obs' = [obs EXCEPT !.nops = @ + 1]
    /\ UNCHANGED <<fs, df, dfw, org, orgw, sc, cfg>>

\* remove_file, up to `metadata = self.data["files"][file_path_str]`
RemoveFileBegin(path) ==
    /\ obs.nops < MaxOps
    /\ scw = EmptyMap
    /\ scw' = IF path \in DOMAIN db.files
              THEN (1 :> [op |-> "remove", pc |-> "extensions", path |-> path,
                          metadata |-> db.files[path]])
              ELSE scw
    /\ obs' = [obs EXCEPT !.nops = @ + 1]
    /\ UNCHANGED <<db, fs, df, dfw, org, orgw, sc, cfg>>

\* the next statement of the add_file call in progress
AddFileStep(tid) ==
    /\ tid \in DOMAIN scw /\ scw[tid].op = "add"
    /\ LET w == scw[tid]
           ext == Lower(SplitExt(w.path.name))
           category == CategoryForExtension(ext)
           old == IF category \in DOMAIN db.by_category THEN db.by_category[category]
                  ELSE [count |-> 0, size |-> 0]
       IN CASE w.pc = "count" ->
                 /\ db' = [db EXCEPT !.file_count = Cardinality(DOMAIN db.files)]
                 /\ scw' = [scw EXCEPT ![tid].pc = "extensions"]
            [] w.pc = "extensions" ->
                 /\ db' = [db EXCEPT !.extensions =
                              IF ext # <<>>
                              THEN Put(@, ext, (IF ext \in DOMAIN @ THEN @[ext] ELSE 0) + 1)
                              ELSE @]
                 /\ scw' = [scw EXCEPT ![tid].pc = "category"]
            [] w.pc = "category" ->
                 /\ db' = [db EXCEPT !.by_category =
                              Put(@, category, [count |-> old.count + 1,
                                                size |-> old.size + w.metadata.size])]
                 /\ scw' = [scw EXCEPT ![tid].pc = "total"]
            [] w.pc = "total" ->
                 /\ db' = [db EXCEPT !.total_size = @ + w.metadata.size]
                 /\ scw' = Del(scw, tid)
    /\ UNCHANGED <<fs, df, dfw, org, orgw, sc, cfg, obs>>

\* the next statement of the remove_file call in progress
RemoveFileStep(tid) ==
    /\ tid \in DOMAIN scw /\ scw[tid].op = "remove"
    /\ LET w == scw[tid]
           ext == Lower(SplitExt(w.path.name))
           category == CategoryForExtension(ext)
       IN CASE w.pc = "extensions" ->
                 /\ db' = [db EXCEPT !.extensions =
                              IF ext # <<>> /\ ext \in DOMAIN @
                              THEN IF @[ext] - 1 <= 0 THEN Del(@, ext)
                                   ELSE [@ EXCEPT ![ext] = @ - 1]
                              ELSE @]
                 /\ scw' = [scw EXCEPT ![tid].pc = "category"]
            [] w.pc = "category" ->
                 /\ db' = [db EXCEPT !.by_category =
                              IF category \in DOMAIN @
                              THEN IF @[category].count - 1 <= 0 THEN Del(@, category)
                                   ELSE [@ EXCEPT ![category] =
                                            [count |-> @.count - 1,
                                             size |-> @.size - w.metadata.size]]
                              ELSE @]
                 /\ scw' = [scw EXCEPT ![tid].pc = "total"]
            [] w.pc = "total" ->
                 /\ db' = [db EXCEPT !.total_size = @ - w.metadata.size]
                 /\ scw' = [scw EXCEPT ![tid].pc = "delete"]
            [] w.pc = "delete" ->
                 /\ db' = [db EXCEPT !.files = Del(@, w.path),
                                     !.file_order = SelectSeq(@, LAMBDA p : p # w.path)]
                 /\ scw' = [scw EXCEPT ![tid].pc = "count"]
            [] w.pc = "count" ->
                 /\ db' = [db EXCEPT !.file_count = Cardinality(DOMAIN db.files)]
                 /\ scw' = Del(scw, tid)
    /\ UNCHANGED <<fs, df, dfw, org, orgw, sc, cfg, obs>>

AtomicNext ==
    \/ \E path \in CatalogPaths, size \in CatalogSizes : AddFileBegin(path, size)
    \/ \E path \in CatalogPaths : RemoveFileBegin(path)
    \/ \E tid \in DOMAIN scw : AddFileStep(tid)
    \/ \E tid \in DOMAIN scw : RemoveFileStep(tid)

SpecAtomic == AtomicInit /\ [][AtomicNext]_vars

\* C14: a thread that reads the Catalog while another executes add_file or
\* remove_file never sees the record change without the statistics change or
\* the reverse: in every state a reader can see, file_count is the number of
\* records, total_size the sum of their sizes, and the category counts add up
\* to the number of records.
C14_ReadersSeeMatchingStatistics ==
    /\ db.file_count = Cardinality(DOMAIN db.files)
    /\ db.total_size = SumOver(SizeOfRecord(db), DOMAIN db.files)
    /\ SumOver(CountOfCategory(db), DOMAIN db.by_category) = Cardinality(DOMAIN db.files)

\* a step after which no Catalog record is left for a path whose file the step
\* deleted, moved, renamed or replaced
LockStep ==
    \A p \in DOMAIN fs :
        (p \notin DOMAIN fs' \/ fs'[p] # fs[p]) => p \notin DOMAIN db'.files

\* C15: every step of a resolution pass on one file, whether it succeeds or
\* ends in a caught failure, leaves no Catalog record for a path whose file it
\* deleted, moved, renamed or replaced.
C15_CatalogFollowsFilesystem == [][LockStep]_vars

\* C16: a pass that did not find cancel_requested set and has delivered its
\* final callback has applied its method to every member but the keeper of
\* every group of 2 or more files, whether or not the method failed on some
\* of them; and a pass whose thread has ended has delivered its final callback.
C16_FailuresAreAbsorbed ==
    /\ (obs.pass.done /\ ~obs.pass.cancelled) =>
          \A g \in 1..Len(obs.pass.groups) :
              Len(obs.pass.groups[g].files) >= 2 =>
                 \A m \in PassMembers(g) \ PassKeepers(g) :
                    \E a \in 1..Len(obs.pass.attempts) :
                        obs.pass.attempts[a].g = g /\ obs.pass.attempts[a].path = m
    /\ (obs.pass.method # None /\ \A tid \in DOMAIN dfw : dfw[tid].kind # "resolve") =>
          obs.pass.done

\* a pass has completed in which the method failed on one member and was
\* applied to another member after it
C16_Witness ==
    /\ obs.pass.done /\ ~obs.pass.cancelled
    /\ \E a, b \in 1..Len(obs.pass.attempts) :
          a < b /\ obs.pass.attempts[a].failed

(***************************************************************************)
(* Specification SpecHistory: add_history_entry on a history that starts   *)
(* empty, short, or at or just below the limit                             *)
(***************************************************************************)
\* the entries a history starts with, numbered in the order they were added
StartHistory(n) == [i \in 1..n |-> [action |-> "scan", details |-> i]]

HistoryInit ==
    /\ fs = EmptyMap
    /\ df = InitDF /\ dfw = EmptyMap
    /\ org = InitOrg /\ orgw = EmptyMap
    /\ sc = InitSc /\ scw = EmptyMap
    /\ cfg = DefaultConfig
    /\ \E n \in {0, 1, HistoryLimit - 2, HistoryLimit - 1, HistoryLimit} :
          /\ db = [EmptyDb EXCEPT !.history = StartHistory(n)]
          /\ obs = [nops |-> 0, log |-> StartHistory(n)]

\* a caller adds an entry; the entries are numbered so that they can be told apart
AddHistoryEntry(action) ==
    /\ obs.nops < MaxOps
    /\ db' = add_history_entry(db, action, Len(obs.log) + 1)
    /\ obs' = [nops |-> obs.nops + 1,
               log |-> Append(obs.log, [action |-> action, details |-> Len(obs.log) + 1])]
    /\ UNCHANGED <<fs, df, dfw, org, orgw, sc, scw, cfg>>

HistoryNext == \E action \in {"move", "rename", "delete_duplicate"} : AddHistoryEntry(action)

SpecHistory == HistoryInit /\ [][HistoryNext]_vars

\* C17: after any sequence of add_history_entry calls on a history that started
\* with at most 1000 entries, the history holds at most 1000 entries, and they
\* are the most recently added entries in the order they were added.
C17_HistoryKeepsMostRecent ==
    /\ Len(db.history) <= HistoryLimit
    /\ db.history =
          IF Len(obs.log) > HistoryLimit
          THEN SubSeq(obs.log, Len(obs.log) - HistoryLimit + 1, Len(obs.log))
          ELSE obs.log

\* entries have been added to a full history: the oldest have been evicted
C17_Witness ==
    /\ obs.nops >= 2
    /\ Len(obs.log) > HistoryLimit + 1
    /\ db.history[1] = obs.log[Len(obs.log) - HistoryLimit + 1]

(***************************************************************************)
(* Specification SpecGroups: duplicate searches on a Catalog whose records *)
(* have sizes and fingerprints of their own.  _process_file reads the size *)
(* with os.stat and the fingerprint by reading the file afterwards, and    *)
(* the database file is loaded as it is, so the size of a record does not  *)
(* follow from its fingerprint.                                            *)
(***************************************************************************)
GroupPaths ==
    <<[dir |-> RootDir, name |-> NameX],
      [dir |-> OtherDir, name |-> NameX],
      [dir |-> Append(RootDir, DuplicatesFolder), name |-> NameX],
      [dir |-> Append(OtherDir, DuplicatesFolder), name |-> NameX],
      [dir |-> RootDir, name |-> NameZ]>>

\* db.add_file(path, record) for each path, with the size and hash chosen for it
RECURSIVE CatalogOf(_, _, _, _)
CatalogOf(d, paths, sizes, hashes) ==
    IF paths = <<>> THEN d
    ELSE CatalogOf(add_file(d, Head(paths), Metadata(Head(paths), Head(sizes), 1, Head(hashes))),
                   Tail(paths), Tail(sizes), Tail(hashes))

GroupsInit ==
    /\ fs = EmptyMap
    /\ df = InitDF /\ dfw = EmptyMap
    /\ org = InitOrg /\ orgw = EmptyMap
    /\ sc = InitSc /\ scw = EmptyMap
    /\ \E sizes \in [1..Len(GroupPaths) -> CatalogSizes],
          hashes \in [1..Len(GroupPaths) -> {"c1", "c2"}] :
          db = CatalogOf(EmptyDb, GroupPaths, sizes, hashes)
    /\ \E method \in CompareMethods : cfg = [DefaultConfig EXCEPT !.compare_method = method]
    /\ obs = [requests |-> 0, accepted |-> FALSE, busy |-> FALSE, callbacks |-> 0,
              last_callback |-> NoCallback]

GroupsNext ==
    \/ FindDuplicates
    \/ DfCancel
    \/ \E tid \in DOMAIN dfw : FindStart(tid)
    \/ \E tid \in DOMAIN dfw : FindGroup(tid)
    \/ \E tid \in DOMAIN dfw : FindHashFile(tid)
    \/ \E tid \in DOMAIN dfw : FindMerge(tid)
    \/ \E tid \in DOMAIN dfw : FindFinal(tid)
    \/ \E tid \in DOMAIN dfw : DfFinally(tid)

SpecGroups == GroupsInit /\ [][GroupsNext]_vars

\* C18: every group a content-mode search reports has at least 2 members, and
\* its members all have Catalog records with the same size and the same
\* non-empty fingerprint.
C18_ContentGroupsAgree ==
    cfg.compare_method = "content" =>
        \A k \in 1..Len(get_duplicates(df)) :
            LET files == get_duplicates(df)[k].files
            IN /\ Len(files) >= 2
               /\ \A i, j \in 1..Len(files) :
                     /\ get_file(db, files[i]) # <<>>
                     /\ db.files[files[i]].hash # None
                     /\ db.files[files[i]].hash = db.files[files[j]].hash
                     /\ db.files[files[i]].size = db.files[files[j]].size

\* the cataloged files of the given size and base name, at or above the minimum size
SameSizeAndName(size, name) ==
    {p \in DOMAIN db.files :
        /\ db.files[p].size = size /\ size >= cfg.min_size
        /\ p.name = name}

\* C20: after a complete search with method name or both, every set of 2 or
\* more cataloged files of one size (at or above the minimum) and one base
\* name is contained in the reported group keyed "name:<name>", for every size
\* partition, also when the name occurs in several size partitions.
C20_EveryNamePartitionReported ==
    (/\ cfg.compare_method \in {"name", "both"}
     /\ obs.requests > 0 /\ dfw = EmptyMap /\ ~df.cancel_requested) =>
        \A size \in CatalogSizes, p \in DOMAIN db.files :
            Cardinality(SameSizeAndName(size, p.name)) >= 2 =>
                \E k \in 1..Len(get_duplicates(df)) :
                    /\ get_duplicates(df)[k].key = NameKey(p.name)
                    /\ SameSizeAndName(size, p.name) \subseteq Range(get_duplicates(df)[k].files)

(***************************************************************************)
(* Specification SpecSnapshot: a pattern analysis while a scan adds        *)
(* records.  The Catalog starts with the record of the first file of the   *)
(* tree, from an earlier scan; the other files are not cataloged yet.      *)
(***************************************************************************)
SnapshotInit ==
    /\ df = InitDF /\ dfw = EmptyMap
    /\ org = InitOrg /\ orgw = EmptyMap
    /\ sc = InitSc /\ scw = EmptyMap
    /\ \E tree \in {t \in Trees : \A i \in 1..Len(t) : IsPrefix(RootDir, t[i].path.dir)} :
          /\ fs = TreeFs(tree, 1)
          /\ db = ScanInto(EmptyDb, fs, <<tree[1].path>>)
    /\ cfg = DefaultConfig
    /\ obs = [requests |-> 0, accepted |-> FALSE, busy |-> FALSE, callbacks |-> 0,
              last_callback |-> NoCallback, caller |-> "idle", scans |-> EmptyMap]

SnapshotNext ==
    \/ StartScan(RootDir)
    \/ \E tid \in DOMAIN scw : ScanCount(tid)
    \/ \E tid \in DOMAIN scw, read \in BOOLEAN : ScanFile(tid, read)
    \/ \E tid \in DOMAIN scw : ScanFinal(tid)
    \/ \E tid \in DOMAIN scw : ScanFinally(tid)
    \/ AnalyzePatterns
    \/ OrgCancel
    \/ \E tid \in DOMAIN orgw : AnalyzeStart(tid)
    \/ \E tid \in DOMAIN orgw : AnalyzeFile(tid)
    \/ \E tid \in DOMAIN orgw : AnalyzeSave(tid)
    \/ \E tid \in DOMAIN orgw : OrgFinally(tid)

SpecSnapshot == SnapshotInit /\ [][SnapshotNext]_vars

\* a pattern analysis between its call of db.get_all_files() and the end of
\* its loops over the mapping the call returned
HoldsAllFiles(w) == w.kind = "analyze" /\ w.pc \in {"loop", "save"}

\* a step that leaves alone the mapping every analysis holds: get_all_files
\* returns self.data["files"] itself, so the mapping held is the catalog's
SnapshotStep ==
    \A tid \in DOMAIN orgw \cap DOMAIN orgw' :
        (HoldsAllFiles(orgw[tid]) /\ HoldsAllFiles(orgw'[tid])) =>
            /\ get_all_files(db') = get_all_files(db)
            /\ \A p \in DOMAIN db.files : db'.files[p] = db.files[p]

\* C19: the mapping get_all_files returned has snapshot semantics: no record is
\* added to it or removed from it after the call, so a pattern analysis that
\* iterates it is unaffected by a scan that changes the Catalog meanwhile.
C19_ReturnedMappingIsSnapshot == [][SnapshotStep]_vars

\* C21: in a pass with method move, after a non-keeper file has been moved into
\* the Duplicates subfolder of its parent directory, the Catalog has no record
\* at the old path and has a record at the file's new path in that subfolder.
C21_MoveUpdatesCatalogPath ==
    obs.pass.method = "move" =>
        \A i \in 1..Len(obs.pass.attempts) :
            ~obs.pass.attempts[i].failed =>
                /\ get_file(db, obs.pass.attempts[i].path) = <<>>
                /\ \E p \in DOMAIN db.files :
                      p.dir = Append(obs.pass.attempts[i].path.dir, DuplicatesFolder)

(***************************************************************************)
(* Specification SpecOrganize: auto_organize runs over a directory tree,   *)
(* with the same rules in every run; the tree may hold the destination     *)
(* folder already, and its files may or may not be cataloged.              *)
(***************************************************************************)
OrganizeTrees ==
    {<<[path |-> [dir |-> RootDir, name |-> NameX], content |-> "c1"],
       [path |-> [dir |-> RootDir, name |-> NameZ], content |-> "c2"]>>,
     <<[path |-> [dir |-> RootDir, name |-> NameX], content |-> "c1"],
       [path |-> [dir |-> Append(RootDir, "Misc"), name |-> NameX], content |-> "c2"]>>}

\* the rules argument of auto_organize: None, or a list of one rule
OrganizeRules ==
    {[given |-> FALSE, list |-> <<>>]}
    \cup {[given |-> TRUE, list |-> <<rule>>] :
             rule \in {r \in RuleUniverse : r.type \in {"date", "size"}}}

OrganizeInit ==
    /\ df = InitDF /\ dfw = EmptyMap
    /\ org = InitOrg /\ orgw = EmptyMap
    /\ sc = InitSc /\ scw = EmptyMap
    /\ \E tree \in OrganizeTrees, cataloged \in BOOLEAN :
          /\ fs = TreeFs(tree, 1)
          /\ db = IF cataloged
                  THEN ScanInto(EmptyDb, fs, [i \in 1..Len(tree) |-> tree[i].path])
                  ELSE EmptyDb
    /\ cfg = DefaultConfig
    /\ \E rules \in OrganizeRules :
          obs = [requests |-> 0, accepted |-> FALSE, busy |-> FALSE, callbacks |-> 0,
                 last_callback |-> NoCallback, rules |-> rules]

OrganizeNext ==
    \/ AutoOrganize(RootDir, obs.rules)
    \/ OrgCancel
    \/ \E tid \in DOMAIN orgw : OrganizeStart(tid)
    \/ \E tid \in DOMAIN orgw, moved \in BOOLEAN : OrganizeFile(tid, moved)
    \/ \E tid \in DOMAIN orgw : OrganizeFinal(tid)
    \/ \E tid \in DOMAIN orgw : OrgFinally(tid)

SpecOrganize == OrganizeInit /\ [][OrganizeNext]_vars

\* the iteration of _organize_thread a step performs, if any: the file it was
\* about and whether the file was moved
OrganizeStepOk(tid) ==
    LET file_path == org'.current_file[1]
        destination == apply_rules(file_path, get_file(db', file_path)[1], orgw[tid].rules.list)
    IN IF Len(orgw'[tid].moved_files) = Len(orgw[tid].moved_files) + 1
       THEN LET m == orgw'[tid].moved_files[Len(orgw'[tid].moved_files)]
            IN /\ m.original_path = file_path
               /\ get_file(db', m.original_path) = <<>>
               /\ get_file(db', m.new_path) # <<>>
               /\ db'.files[m.new_path].path = m.new_path.dir
               /\ m.new_path \in DOMAIN fs' /\ file_path \notin DOMAIN fs'
               /\ db'.history = Append(db.history,
                                       [action |-> "move",
                                        details |-> [original_path |-> file_path,
                                                     new_path |-> m.new_path]])
       ELSE /\ db'.history = db.history
            /\ get_file(db, file_path) # <<>> => db' = db
            /\ DOMAIN db'.files \subseteq DOMAIN db.files \cup {file_path}
            /\ fs' = fs
            /\ orgw'[tid].pc = "loop"

\* C22: when auto_organize moves a file, the Catalog afterwards has no record at
\* the old path and a record at the new path whose parent field is the
\* destination directory, and exactly one move history entry naming both paths
\* has been appended; when the file is not moved, the Catalog record set and
\* the history are as before and the thread goes on with the remaining files.
C22_OrganizeMoveUpdatesCatalog ==
    [][\A tid \in DOMAIN orgw \cap DOMAIN orgw' :
          (/\ orgw[tid].kind = "organize"
           /\ org'.processed_files = org.processed_files + 1) => OrganizeStepOk(tid)]_vars

\* a run with the default rules in which one file has been moved and the move
\* of another has failed
C22_Witness ==
    /\ ~obs.rules.given
    /\ \E tid \in DOMAIN orgw :
          /\ orgw[tid].kind = "organize"
          /\ Len(orgw[tid].moved_files) >= 1
          /\ org.processed_files > Len(orgw[tid].moved_files)
          /\ Len(db.history) = Len(orgw[tid].moved_files)

\* C28: a file that auto_organize has moved into the destination its rules give
\* is not moved again, in the same run or in a later run with the same rules
\* over the same directory: no move recorded in the history starts from the
\* path an earlier move ended at.
C28_OrganizedFileStays ==
    \A i, j \in 1..Len(db.history) :
        (/\ i < j
         /\ db.history[i].action = "move"
         /\ db.history[j].action = "move") =>
            db.history[j].details.original_path # db.history[i].details.new_path

(***************************************************************************)
(* Specification SpecHash: scans of a directory while the settings dialog  *)
(* saves the configuration                                                 *)
(***************************************************************************)
\* the settings dialog: self.config.set("Duplicates", "hash_algorithm", hash_algo)
SetHashAlgorithm(hash_algo) ==
    /\ cfg.hash_algorithm # hash_algo
    /\ cfg' = [cfg EXCEPT !.hash_algorithm = hash_algo]
    /\ UNCHANGED <<db, fs, df, dfw, org, orgw, sc, scw, obs>>

HashNext ==
    \/ StartScan(RootDir)
    \/ \E hash_algo \in HashAlgorithms : SetHashAlgorithm(hash_algo)
    \/ \E tid \in DOMAIN scw : ScanCount(tid)
    \/ \E tid \in DOMAIN scw, read \in BOOLEAN : ScanFile(tid, read)
    \/ \E tid \in DOMAIN scw : ScanFinal(tid)
    \/ \E tid \in DOMAIN scw : ScanFinally(tid)

SpecHash == ScanInit /\ [][HashNext]_vars

\* the algorithm a stored fingerprint was computed with
AlgorithmOf(hash) ==
    CHOOSE a \in HashAlgorithms :
        \E p \in DOMAIN fs : hash = calculate_file_hash(a, fs[p].content)

\* C23: the fingerprints that one scan run stores in the Catalog are all
\* computed with the same hash algorithm, also when hash_algorithm is changed
\* during the run (stated for the latest run, whose records no later run has
\* replaced).
C23_OneAlgorithmPerScan ==
    \A k \in DOMAIN obs.scans :
        (\A j \in DOMAIN obs.scans : j <= k) =>
            \A p, q \in Range(obs.scans[k].added) :
                AlgorithmOf(db.files[p].hash) = AlgorithmOf(db.files[q].hash)

\* the positions of the members of a group that have a Catalog record
Cataloged(file_list) == {i \in 1..Len(file_list) : get_file(db, file_list[i]) # <<>>}

\* the first position, among the cataloged members, of a smallest creation time
OldestFirst(file_list) ==
    CHOOSE i \in Cataloged(file_list) :
        \A j \in Cataloged(file_list) :
            \/ db.files[file_list[i]].created < db.files[file_list[j]].created
            \/ /\ db.files[file_list[i]].created = db.files[file_list[j]].created
               /\ i <= j

\* C24: without a keep-selection function, the keeper chosen for a group is the
\* member whose Catalog record has the smallest creation timestamp, and the
\* first such member in the group's list when several share it, so it is a
\* function of the Catalog and the group.
C24_KeeperIsOldestFirst ==
    [][Len(obs'.pass.keepers) = Len(obs.pass.keepers) + 1 =>
          LET k == obs'.pass.keepers[Len(obs'.pass.keepers)]
              file_list == obs'.pass.groups[k.g].files
          IN Cataloged(file_list) # {} =>
                k.keeper = file_list[OldestFirst(file_list)]]_vars

\* a keeper has been chosen for a group whose first two members are cataloged
\* with the same, smallest, creation timestamp: the keeper is the first
C24_Witness ==
    \E tid \in DOMAIN dfw :
        /\ dfw[tid].kind = "resolve" /\ dfw[tid].pc = "members" /\ dfw[tid].j = 1
        /\ LET file_list == dfw[tid].groups[dfw[tid].g].files
           IN /\ Cataloged(file_list) = 1..Len(file_list)
              /\ db.files[file_list[1]].created = db.files[file_list[2]].created
              /\ OldestFirst(file_list) = 1
              /\ dfw[tid].keeper = <<file_list[1]>>

\* C25: a cancel() request affects only the operation that is running when it
\* is made: whenever find_duplicates or resolve_duplicates starts a worker, no
\* earlier cancel request is pending for it, so the worker is not stopped by a
\* cancel made before it started.
C25_CancelEndsWithItsOperation ==
    [][\A tid \in DOMAIN dfw' \ DOMAIN dfw : ~df'.cancel_requested]_vars

\* C26: within one resolve_duplicates pass, a file kept as the keeper of one
\* group is not deleted, moved, renamed or replaced by a link as a non-keeper
\* of another group of the pass.
C26_KeeperSurvivesOtherGroups ==
    \A i \in 1..Len(obs.pass.keepers), j \in 1..Len(obs.pass.attempts) :
        (/\ obs.pass.keepers[i].g # obs.pass.attempts[j].g
         /\ ~obs.pass.attempts[j].failed) =>
            obs.pass.attempts[j].path # obs.pass.keepers[i].keeper

\* C27: when a worker of a DuplicateFinder or a FileOrganizer delivers a
\* progress callback that reports processing false, the component is idle at
\* that moment, so that a request made from inside the callback is accepted.
C27_FinishedCallbackMeansIdle ==
    [][(/\ obs'.callbacks = obs.callbacks + 1
        /\ ~obs'.last_callback.processing) =>
           /\ dfw' # dfw => ~df'.processing
           /\ orgw' # orgw => ~org'.processing]_vars

(***************************************************************************)
(* Specification SpecLive: a FileScanner, a DuplicateFinder and a          *)
(* FileOrganizer on one directory that has been scanned and searched for   *)
(* duplicates; one operation at a time, each worker thread scheduled again *)
(* and again while it has a step to take                                   *)
(***************************************************************************)
\* two files with the same content in the directory
LiveTree ==
    <<[path |-> [dir |-> RootDir, name |-> NameX], content |-> "c1"],
      [path |-> [dir |-> RootDir, name |-> NameZ], content |-> "c1"]>>

LivePaths == [i \in 1..Len(LiveTree) |-> LiveTree[i].path]

\* the state after start_scan and find_duplicates (the first request) have
\* run to their ends on the tree
LiveInit ==
    /\ fs = TreeFs(LiveTree, 1)
    /\ db = ScanInto(EmptyDb, fs, LivePaths)
    /\ df = [InitDF EXCEPT
                !.processed_files = Len(LivePaths),
                !.total_files = Len(LivePaths),
                !.duplicates =
                    MergeHashGroups(<<>>,
                        GroupByKeys(LivePaths,
                                    [i \in 1..Len(LivePaths) |->
                                        HashKey(db.files[LivePaths[i]].hash)],
                                    <<>>))]
    /\ dfw = EmptyMap
    /\ org = InitOrg /\ orgw = EmptyMap
    /\ sc = InitSc /\ scw = EmptyMap
    /\ cfg = DefaultConfig
    /\ obs = [requests |-> 1, accepted |-> TRUE, busy |-> FALSE, callbacks |-> 0,
              last_callback |-> NoCallback, pass |-> NoPass,
              caller |-> "idle", scans |-> EmptyMap]

\* the steps of the scan thread
ScanWorkerStep ==
    \/ \E tid \in DOMAIN scw : ScanCount(tid)
    \/ \E tid \in DOMAIN scw, read \in BOOLEAN : ScanFile(tid, read)
    \/ \E tid \in DOMAIN scw : ScanFinal(tid)
    \/ \E tid \in DOMAIN scw : ScanFinally(tid)

\* _resolve_thread called with a keep_filter that raises on the file list of a
\* group: the exception leaves the loop for the `except` clause of the thread
\* and its `finally`
ResolveKeepFilterRaises(tid) ==
    /\ tid \in DOMAIN dfw /\ dfw[tid].kind = "resolve" /\ dfw[tid].pc = "group"
    /\ dfw[tid].g <= Len(dfw[tid].groups)
    /\ Len(dfw[tid].groups[dfw[tid].g].files) > 1
    /\ ~df.cancel_requested
    /\ dfw' = [dfw EXCEPT ![tid].pc = "finally"]
    /\ UNCHANGED <<db, fs, df, org, orgw, sc, scw, cfg, obs>>

\* the steps of the threads of the DuplicateFinder
DfWorkerStep ==
    \/ \E tid \in DOMAIN dfw : FindStart(tid)
    \/ \E tid \in DOMAIN dfw : FindGroup(tid)
    \/ \E tid \in DOMAIN dfw : FindHashFile(tid)
    \/ \E tid \in DOMAIN dfw : FindMerge(tid)
    \/ \E tid \in DOMAIN dfw : FindFinal(tid)
    \/ \E tid \in DOMAIN dfw : ResolveStart(tid)
    \/ \E tid \in DOMAIN dfw : ResolveGroup(tid)
    \/ \E tid \in DOMAIN dfw : ResolveKeepFilterRaises(tid)
    \/ \E tid \in DOMAIN dfw, done \in BOOLEAN, linked \in BOOLEAN :
          ResolveMember(tid, done, linked)
    \/ \E tid \in DOMAIN dfw : ResolveGroupEnd(tid)
    \/ \E tid \in DOMAIN dfw : ResolveFinal(tid)
    \/ \E tid \in DOMAIN dfw : DfFinally(tid)

\* the steps of the threads of the FileOrganizer
OrgWorkerStep ==
    \/ \E tid \in DOMAIN orgw : AnalyzeStart(tid)
    \/ \E tid \in DOMAIN orgw : AnalyzeFile(tid)
    \/ \E tid \in DOMAIN orgw : AnalyzeSave(tid)
    \/ \E tid \in DOMAIN orgw : SuggestCount(tid)
    \/ \E tid \in DOMAIN orgw : OrganizeStart(tid)
    \/ \E tid \in DOMAIN orgw, moved \in BOOLEAN : OrganizeFile(tid, moved)
    \/ \E tid \in DOMAIN orgw : OrganizeFinal(tid)
    \/ \E tid \in DOMAIN orgw : RenameGenerate(tid)
    \/ \E tid \in DOMAIN orgw, renamed \in BOOLEAN : RenameFile(tid, renamed)
    \/ \E tid \in DOMAIN orgw : RenameFinal(tid)
    \/ \E tid \in DOMAIN orgw : OrgFinally(tid)

\* the caller starts an operation when no worker is running, and may cancel
\* at any moment
AllIdle == scw = EmptyMap /\ dfw = EmptyMap /\ orgw = EmptyMap

LiveNext ==
    \/ AllIdle /\ StartScan(RootDir)
    \/ StopScan
    \/ \E timeout \in BOOLEAN : StopScanJoined(timeout)
    \/ AllIdle /\ FindDuplicates
    \/ AllIdle /\ \E method \in Methods, given \in GivenGroups :
                      ResolveDuplicates(method, given)
    \/ DfCancel
    \/ AllIdle /\ AnalyzePatterns
    \/ AllIdle /\ SuggestOrganization(RootDir)
    \/ AllIdle /\ AutoOrganize(RootDir, [given |-> FALSE, list |-> <<>>])
    \/ AllIdle /\ \E path \in DOMAIN db.files : AutoRename(<<path>>)
    \/ OrgCancel
    \/ ScanWorkerStep
    \/ DfWorkerStep
    \/ OrgWorkerStep

SpecLive ==
    /\ LiveInit /\ [][LiveNext]_vars
    /\ WF_vars(ScanWorkerStep) /\ WF_vars(DfWorkerStep) /\ WF_vars(OrgWorkerStep)

\* C29: every accepted request eventually returns its component to idle:
\* scanning, or processing, becomes False again and the worker is gone, also
\* when the operation is cancelled or a per-item step fails, provided the
\* worker keeps being scheduled.
C29_EveryOperationEnds ==
    /\ (sc.scanning ~> (~sc.scanning /\ scw = EmptyMap))
    /\ (df.processing ~> (~df.processing /\ dfw = EmptyMap))
    /\ (org.processing ~> (~org.processing /\ orgw = EmptyMap))

\* a request made after the search was accepted, cancel was asked for, and the
\* components are idle again with every worker gone
C29_Witness ==
    /\ obs.requests > 1 /\ obs.accepted
    /\ df.cancel_requested \/ org.cancel_requested \/ sc.cancel_scan
    /\ AllIdle
    /\ ~sc.scanning /\ ~df.processing /\ ~org.processing

(***************************************************************************)
(* Specification SpecLinks: the DuplicateFinder on a directory that holds  *)
(* two files with the same content and one symbolic link whose target is   *)
(* missing                                                                 *)
(***************************************************************************)
\* the paths at which the directory holds the broken link: the paths
\* _move_duplicate and _rename_duplicate compute first for the two files
BrokenLinkPaths ==
    {[dir |-> Append(RootDir, DuplicatesFolder), name |-> NameX],
     [dir |-> Append(RootDir, DuplicatesFolder), name |-> NameZ],
     [dir |-> RootDir, name |-> NameX \o DuplicateSuffix],
     [dir |-> RootDir, name |-> NameZ \o DuplicateSuffix]}

\* a path at which there is nothing
MissingPath == [dir |-> OtherDir, name |-> NameX]

\* the state after a scan of the directory: os.walk yields the link too, and
\* _process_file leaves it out of the catalog because os.stat on it fails
LinksInit ==
    /\ df = InitDF /\ dfw = EmptyMap
    /\ org = InitOrg /\ orgw = EmptyMap
    /\ sc = InitSc /\ scw = EmptyMap
    /\ \E link \in BrokenLinkPaths, method \in CompareMethods, old \in 1..Len(LiveTree) :
          /\ fs = Put(TreeFs(LiveTree, old), link,
                      [kind |-> "symlink", target |-> MissingPath])
          /\ db = ScanInto(EmptyDb, fs, LivePaths)
          /\ cfg = [DefaultConfig EXCEPT !.compare_method = method]
    /\ obs = [requests |-> 0, accepted |-> FALSE, busy |-> FALSE, callbacks |-> 0,
              last_callback |-> NoCallback, pass |-> NoPass]

SpecLinks == LinksInit /\ [][ResolveNext]_vars

\* a step of a thread that moves or renames a file: the directory changes, and
\* the step is not one of a delete, symlink or hardlink resolution
MovesOrRenames ==
    /\ fs' # fs
    /\ \A tid \in DOMAIN dfw :
          (tid \notin DOMAIN dfw' \/ dfw'[tid] # dfw[tid])
              => dfw[tid].method \in {"move", "rename"}

\* C30: no operation that moves or renames a file replaces what is at the
\* target path: after the step every entry of the directory from before is
\* still there, under some path, and the number of entries is unchanged.
C30_MoveReplacesNothing ==
    [][MovesOrRenames =>
          /\ \A p \in DOMAIN fs : \E q \in DOMAIN fs' : fs'[q] = fs[p]
          /\ Cardinality(DOMAIN fs') = Cardinality(DOMAIN fs)]_vars

====
